---- MODULE Spec2Model ----
(***************************************************************************)
(* Request-routing core of open-market-data: provider registry, priority / *)
(* fallback router, token-bucket rate limiter and TTL result cache.        *)
(*                                                                         *)
(* Time is the value of Date.now() in milliseconds.  Bucket tokens are     *)
(* JavaScript numbers (IEEE 754 binary64); the model computes them with    *)
(* round-to-nearest-even binary64 arithmetic on fixed-point limbs, so that *)
(* elapsed / windowMs * maxRequests  rounds where the code rounds.         *)
(* Strings that end up inside a cache key are sequences of characters, so  *)
(* that key construction is the concatenation the code performs.           *)
(***************************************************************************)
EXTENDS Integers, Sequences, FiniteSets, TLC

\* ------------------------------------------------------------------ bounds
MaxCalls == 2
MaxTicks == 1
TickMs == 30000

\* ------------------------------------------------------- program constants
DEFAULT_PRIORITY == 99
MAX_ENTRIES == 500

\* ------------------------------------------------------------ JS encodings
\* NaN (Date.now() + undefined) and undefined, kept apart from every number
\* the model uses; comparisons with NaN go through NumLE.
NaN == 0 - 1
Undefined == 0 - 2
NoSource == ""

NumLE(x, y) == x # NaN /\ y # NaN /\ x <= y

Truthy(v) == v # Undefined /\ v # 0 /\ v # NaN

Min(x, y) == IF x <= y THEN x ELSE y

Range(s) == {s[k] : k \in 1..Len(s)}

\* The values an argument can have: a string or a non-negative integer.
Str(s) == [isNum |-> FALSE, str |-> s, num |-> 0]

Num(n) == [isNum |-> TRUE, str |-> "", num |-> n]

\* An object is the sequence of its properties in insertion order; no two
\* properties of an object have the same key.
Prop(k, v) == [key |-> k, value |-> v]

\* ------------------------------------------------------------------ inputs
Names == {"a", "b"}

\* DataCategory
Categories ==
    {"search", "quote", "financials", "filing", "insiders", "macro",
     "crypto", "history", "options", "earnings", "dividends"}

RouteCategories == {"quote", "history"}

RouteActions == {"get"}

RouteArgs == {<<Prop("symbol", Str("X"))>>}

RouteSources == {NoSource, "b"}

\* Provider descriptors handed to registerProvider.  D1 and D2 share a name.
\* payloads: the data values the descriptor's execute can resolve with.
D1 ==
    [id |-> 1, name |-> "a", requiresKey |-> FALSE,
     capabilities |-> {"quote", "history"},
     priority |-> [c \in {"quote"} |-> 1],
     maxRequests |-> 1, windowMs |-> 30000, payloads |-> {1}]

D2 ==
    [id |-> 2, name |-> "a", requiresKey |-> FALSE,
     capabilities |-> {"quote"},
     priority |-> [c \in {"quote"} |-> 2],
     maxRequests |-> 1, windowMs |-> 30000, payloads |-> {0}]

D3 ==
    [id |-> 3, name |-> "b", requiresKey |-> TRUE,
     capabilities |-> {"quote", "history"},
     priority |-> [c \in {"quote", "history"} |-> IF c = "quote" THEN 2 ELSE 99],
     maxRequests |-> 2, windowMs |-> 60000, payloads |-> {3}]

Descriptors == {D1, D2, D3}

KeyedNames == {d.name : d \in {e \in Descriptors : e.requiresKey}}

DisableCandidates == {"b"}

VARIABLES
    providers,        \* router.ts: const providers: Provider[]
    apiKeys,          \* config: names whose credential is configured
    disabledSources,  \* config.disabledSources
    buckets,          \* rate-limiter.ts: const buckets = new Map()
    store,            \* cache.ts: const store = new Map(), in insertion order
    now,              \* Date.now()
    calls,            \* route() invocations, each with its position
    firstReg,         \* history: id of the first descriptor registered per name
    dupTried,         \* history: a registration under a taken name was attempted
    obs               \* history: the last direct call of an exported limiter
                      \* or cache function, what it returned, and what led to it

vars ==
    <<providers, apiKeys, disabledSources, buckets, store, now, calls, firstReg,
      dupTried, obs>>

\* ------------------------------------------------------- binary64 numbers
\* A non-negative number below 2^15 is <<i, f1, .., f5>>: the integer part
\* and 75 fraction bits in limbs of 15 bits.  Every value the limiter
\* computes is a multiple of 2^-68 as long as windowMs < 2^16, so the limbs
\* hold the exact result of each operation before it is rounded to 53
\* significant bits.
LimbBits == 15

LimbBase == 32768

NumLimbs == 6

MantissaBits == 53

Limbs == 1..NumLimbs

FromInt(n) == [k \in Limbs |-> IF k = 1 THEN n ELSE 0]

FZero == FromInt(0)

RECURSIVE BitLen(_)
BitLen(n) == IF n = 0 THEN 0 ELSE 1 + BitLen(n \div 2)

\* Carries every fraction limb into the limb above it.
RECURSIVE Carry(_, _, _)
Carry(x, k, c) ==
    IF k = 1 THEN [x EXCEPT ![1] = x[1] + c]
    ELSE LET s == x[k] + c
         IN  Carry([x EXCEPT ![k] = s % LimbBase], k - 1, s \div LimbBase)

Normalize(x) == Carry(x, NumLimbs, 0)

\* x with limb j set to v and every limb after it cleared.
Truncate(x, j, v) ==
    [k \in Limbs |-> IF k < j THEN x[k] ELSE IF k = j THEN v ELSE 0]

\* Round to nearest, ties to even: d is the dropped part of the limb, half
\* the weight of its first dropped bit, lsb the last kept bit, rest whether
\* anything non-zero lies below the limb.
RoundsUp(d, half, lsb, rest) ==
    d >= half /\ ((d % half) # 0 \/ rest \/ lsb = 1)

\* The last kept bit when the kept bits end at weight unit of limb j.
LastKeptBit(x, j, unit) ==
    IF unit < LimbBase THEN (x[j] \div unit) % 2 ELSE x[j - 1] % 2

\* Keep the bits of x down to weight unit of limb j.
RoundInLimb(x, sticky, j, unit) ==
    IF RoundsUp(x[j] % unit, unit \div 2, LastKeptBit(x, j, unit),
                sticky \/ \E k \in (j + 1)..NumLimbs : x[k] # 0)
    THEN Normalize(Truncate(x, j, x[j] - (x[j] % unit) + unit))
    ELSE Truncate(x, j, x[j] - (x[j] % unit))

\* Keep the bits of x before bit position cut, counted from the top of the
\* first limb.
RoundAtBit(x, sticky, cut) ==
    IF cut >= NumLimbs * LimbBits THEN x
    ELSE RoundInLimb(x, sticky, cut \div LimbBits + 1,
                     2 ^ (LimbBits - (cut % LimbBits)))

\* Position of the leading one bit of x # 0.
LeadBit(x, i) == (i - 1) * LimbBits + (LimbBits - BitLen(x[i]))

FirstLimb(x) == CHOOSE k \in Limbs : x[k] # 0 /\ \A m \in 1..(k - 1) : x[m] = 0

\* Round to nearest, ties to even, at 53 significant bits.  sticky: the exact
\* value has non-zero bits below the last limb.
Round53(x, sticky) ==
    IF \A k \in Limbs : x[k] = 0 THEN x
    ELSE RoundAtBit(x, sticky, LeadBit(x, FirstLimb(x)) + MantissaBits)

\* Remainder of e / w after k fraction limbs of the quotient.
RECURSIVE DivRem(_, _, _)
DivRem(e, w, k) ==
    IF k = 0 THEN e % w ELSE (DivRem(e, w, k - 1) * LimbBase) % w

\* A value without fraction bits; sums and products of such values stay
\* below 2^53 here and are exact.
IsInt(x) == \A k \in 2..NumLimbs : x[k] = 0

\* e / w for integers e >= 0 and 0 < w < 2^16.
FDiv(e, w) ==
    IF e % w = 0 THEN FromInt(e \div w)
    ELSE Round53([k \in Limbs |->
                    IF k = 1 THEN e \div w
                    ELSE (DivRem(e, w, k - 2) * LimbBase) \div w],
                 DivRem(e, w, NumLimbs - 1) # 0)

\* x * n for an integer n >= 0.
FMul(x, n) ==
    IF IsInt(x) THEN FromInt(x[1] * n)
    ELSE Round53(Normalize([k \in Limbs |-> x[k] * n]), FALSE)

FAdd(x, y) ==
    IF IsInt(x) /\ IsInt(y) THEN FromInt(x[1] + y[1])
    ELSE IF y = FZero THEN x
    ELSE Round53(Normalize([k \in Limbs |-> x[k] + y[k]]), FALSE)

\* x - 1 for x >= 1.
FSubOne(x) == Round53([x EXCEPT ![1] = @ - 1], FALSE)

FLess(x, y) ==
    \E k \in Limbs : x[k] < y[k] /\ \A m \in 1..(k - 1) : x[m] = y[m]

\* Math.min
FMin(x, y) == IF FLess(y, x) THEN y ELSE x

\* Math.floor
FFloor(x) == x[1]

\* ------------------------------------------------------------ rate limiter
NoBucket ==
    [tokens |-> FZero, lastRefill |-> NaN, maxRequests |-> 0, windowMs |-> 0]

\* getBucket: the stored bucket, or a fresh full one created at time t.
getBucket(bs, source, config, t) ==
    IF bs[source] # NoBucket
    THEN bs[source]
    ELSE [tokens |-> FromInt(config.maxRequests), lastRefill |-> t,
          maxRequests |-> config.maxRequests, windowMs |-> config.windowMs]

\* (elapsed / windowMs) * maxRequests with elapsed = t - lastRefill
refillAmount(bucket, t) ==
    FMul(FDiv(t - bucket.lastRefill, bucket.windowMs), bucket.maxRequests)

\* Variant: the refill is added without the cap at maxRequests.
refill_Uncapped(bucket, t) ==
    [bucket EXCEPT
        !.tokens = FAdd(bucket.tokens, refillAmount(bucket, t)),
        !.lastRefill = t]

\* Variant: the refill leaves lastRefill as it was, so the same elapsed time
\* is credited again at the next call.
refill_KeepsLastRefill(bucket, t) ==
    [bucket EXCEPT
        !.tokens = FMin(FromInt(bucket.maxRequests),
                        FAdd(bucket.tokens, refillAmount(bucket, t)))]

refill(bucket, t) ==
    [bucket EXCEPT
        !.tokens = FMin(FromInt(bucket.maxRequests),
                        FAdd(bucket.tokens, refillAmount(bucket, t))),
        !.lastRefill = t]

\* const bucket = getBucket(source, config); refill(bucket): the map with the
\* bucket of source fetched or created, and refilled.
Refilled(bs, source, config, t) ==
    [bs EXCEPT ![source] = refill(getBucket(bs, source, config, t), t)]

\* bucket.tokens >= 1
HasToken(bucket) == ~FLess(bucket.tokens, FromInt(1))

\* canRequest: [buckets, ok]; bs is the map after the refill.
canRequestAfterRefill(bs, source) ==
    [buckets |-> bs, ok |-> HasToken(bs[source])]

canRequest(bs, source, config, t) ==
    canRequestAfterRefill(Refilled(bs, source, config, t), source)

\* Variant: a granted call leaves the token count as it was.
consumeTokenAfterRefill_NoDecrement(bs, source) ==
    [buckets |-> bs, ok |-> HasToken(bs[source])]

\* consumeToken: [buckets, ok]; bs is the map after the refill.
consumeTokenAfterRefill(bs, source) ==
    IF ~HasToken(bs[source])
    THEN [buckets |-> bs, ok |-> FALSE]
    ELSE [buckets |-> [bs EXCEPT ![source].tokens = FSubOne(@)], ok |-> TRUE]

consumeToken(bs, source, config, t) ==
    consumeTokenAfterRefill(Refilled(bs, source, config, t), source)

\* Variant: the floored count is written back to the bucket.
getRemainingAfterRefill_Floors(bs, source) ==
    [buckets |-> [bs EXCEPT ![source].tokens = FromInt(FFloor(@))],
     remaining |-> FFloor(bs[source].tokens)]

\* getRemaining: [buckets, remaining]; bs is the map after the refill.
getRemainingAfterRefill(bs, source) ==
    [buckets |-> bs, remaining |-> FFloor(bs[source].tokens)]

getRemaining(bs, source, config, t) ==
    getRemainingAfterRefill(Refilled(bs, source, config, t), source)

resetBucket(bs, source) == [bs EXCEPT ![source] = NoBucket]

RateLimits(d) == [maxRequests |-> d.maxRequests, windowMs |-> d.windowMs]

\* ------------------------------------------------------------------- cache
\* TTL: Record<DataCategory, number>; a category without an entry reads as
\* undefined.
TTL(category) ==
    CASE category = "search" -> 300000
      [] category = "quote" -> 30000
      [] category = "financials" -> 3600000
      [] category = "filing" -> 3600000
      [] category = "insiders" -> 3600000
      [] category = "macro" -> 3600000
      [] category = "crypto" -> 15000
      [] OTHER -> Undefined

\* The characters of the strings that can reach a cache key.
Chars(s) ==
    CASE s = "a" -> <<"a">>
      [] s = "b" -> <<"b">>
      [] s = "X" -> <<"X">>
      [] s = "id" -> <<"i", "d">>
      [] s = "get" -> <<"g", "e", "t">>
      [] s = "list" -> <<"l", "i", "s", "t">>
      [] s = "a:quote" -> <<"a", ":", "q", "u", "o", "t", "e">>
      [] s = "quote:b" -> <<"q", "u", "o", "t", "e", ":", "b">>
      [] s = "a=\"X\"&b" -> <<"a", "=", "\"", "X", "\"", "&", "b">>
      [] s = "prov" -> <<"p", "r", "o", "v">>
      [] s = "action" -> <<"a", "c", "t", "i", "o", "n">>
      [] s = "symbol" -> <<"s", "y", "m", "b", "o", "l">>
      [] s = "quote" -> <<"q", "u", "o", "t", "e">>
      [] s = "history" -> <<"h", "i", "s", "t", "o", "r", "y">>
      [] s = "macro" -> <<"m", "a", "c", "r", "o">>
      [] s = "financials" -> <<"f", "i", "n", "a", "n", "c", "i", "a", "l", "s">>
      [] OTHER -> <<s>>

\* The characters of the model in ascending order of their UTF-16 code unit.
CodeOrder ==
    <<"\"", "&", "0", "1", "2", "3", "4", "5", "6", "7", "8", "9", ":", "=",
      "X", "\\", "a", "b", "c", "d", "e", "f", "g", "h", "i", "j", "k", "l",
      "m", "n", "o", "p", "q", "r", "s", "t", "u", "v", "w", "x", "y", "z">>

CodeUnit(c) == CHOOSE k \in 1..Len(CodeOrder) : CodeOrder[k] = c

\* a < b for strings, as the default comparator of Array.prototype.sort
\* orders them: by code unit at the first difference, a prefix first.
RECURSIVE StrLess(_, _)
StrLess(a, b) ==
    IF b = <<>> THEN FALSE
    ELSE IF a = <<>> THEN TRUE
    ELSE IF a[1] = b[1] THEN StrLess(Tail(a), Tail(b))
    ELSE CodeUnit(a[1]) < CodeUnit(b[1])

RECURSIVE Join(_, _)
Join(parts, sep) ==
    IF Len(parts) = 0 THEN <<>>
    ELSE IF Len(parts) = 1 THEN parts[1]
    ELSE parts[1] \o sep \o Join(Tail(parts), sep)

DigitChars == <<"0", "1", "2", "3", "4", "5", "6", "7", "8", "9">>

\* The decimal digits of a non-negative integer.
RECURSIVE Digits(_)
Digits(n) ==
    IF n < 10 THEN <<DigitChars[n + 1]>>
    ELSE Digits(n \div 10) \o <<DigitChars[(n % 10) + 1]>>

\* JSON.stringify escapes the quote and the backslash inside a string.
Escape(c) ==
    IF c = "\"" THEN <<"\\", "\"">>
    ELSE IF c = "\\" THEN <<"\\", "\\">>
    ELSE <<c>>

JSONstringifyString(cs) ==
    <<"\"">> \o Join([i \in 1..Len(cs) |-> Escape(cs[i])], <<>>) \o <<"\"">>

JSONstringify(v) ==
    IF v.isNum THEN Digits(v.num) ELSE JSONstringifyString(Chars(v.str))

\* Object.keys(args)
ObjectKeys(args) == [i \in 1..Len(args) |-> args[i].key]

\* The sorted keys with key x put behind the keys that are not above it.
RECURSIVE InsertKey(_, _)
InsertKey(sorted, x) ==
    IF sorted = <<>> THEN <<x>>
    ELSE IF StrLess(Chars(x), Chars(sorted[1])) THEN <<x>> \o sorted
    ELSE <<sorted[1]>> \o InsertKey(Tail(sorted), x)

\* keys.sort()
RECURSIVE SortKeys(_)
SortKeys(keys) ==
    IF keys = <<>> THEN <<>>
    ELSE InsertKey(SortKeys(SubSeq(keys, 1, Len(keys) - 1)), keys[Len(keys)])

\* args[k]
ValueOf(args, k) == args[CHOOSE i \in 1..Len(args) : args[i].key = k].value

\* keys.map((k) => `${k}=${JSON.stringify(args[k])}`)
KeyParts(args, keys) ==
    [i \in 1..Len(keys) |->
        Chars(keys[i]) \o <<"=">> \o JSONstringify(ValueOf(args, keys[i]))]

\* Variant: the keys are taken in insertion order.
makeKey_Unsorted(provider, category, args) ==
    Chars(provider) \o <<":">> \o Chars(category) \o <<":">>
        \o Join(KeyParts(args, ObjectKeys(args)), <<"&">>)

makeKey(provider, category, args) ==
    Chars(provider) \o <<":">> \o Chars(category) \o <<":">>
        \o Join(KeyParts(args, SortKeys(ObjectKeys(args))), <<"&">>)

\* Position of key in the store, 0 when absent.
StoreIndex(st, key) ==
    IF \E k \in 1..Len(st) : st[k].key = key
    THEN CHOOSE k \in 1..Len(st) : st[k].key = key
    ELSE 0

RemoveAt(st, k) == [j \in 1..(Len(st) - 1) |-> IF j < k THEN st[j] ELSE st[j + 1]]

\* Variant: a key already present keeps the entry it has.
storeSet_KeepsExisting(st, entry) ==
    IF StoreIndex(st, entry.key) = 0 THEN Append(st, entry) ELSE st

\* store.set(key, entry): a key already present keeps its position.
storeSet(st, entry) ==
    LET k == StoreIndex(st, entry.key)
    IN  IF k = 0 THEN Append(st, entry) ELSE [st EXCEPT ![k] = entry]

\* { data, expiresAt: Date.now() + ttl } under its key; adding undefined
\* gives NaN.
NewEntry(provider, category, args, data, t) ==
    [key |-> makeKey(provider, category, args), data |-> data,
     expiresAt |-> IF TTL(category) = Undefined THEN NaN ELSE t + TTL(category)]

\* The store after the first pass deleted the entries with expiresAt <= now.
Unexpired(st, t) == SelectSeq(st, LAMBDA e : ~NumLE(e.expiresAt, t))

\* (a, b) => a[1].expiresAt - b[1].expiresAt, by sign; sort reads the NaN
\* of a comparison with a NaN side as +0.
CompareExpiry(a, b) ==
    IF a.expiresAt = NaN \/ b.expiresAt = NaN THEN 0
    ELSE IF a.expiresAt < b.expiresAt THEN 0 - 1
    ELSE IF a.expiresAt > b.expiresAt THEN 1
    ELSE 0

\* The comparator orders the entries consistently unless a NaN, equal to
\* everything, stands between two different finite values.
ConsistentComparator(entries) ==
    \/ \A i \in 1..Len(entries) : entries[i].expiresAt # NaN
    \/ Cardinality({entries[i].expiresAt : i \in 1..Len(entries)} \ {NaN}) <= 1

\* Entry j comes before entry i in the stable ascending sort.
SortsBefore(entries, j, i) ==
    \/ CompareExpiry(entries[j], entries[i]) < 0
    \/ CompareExpiry(entries[j], entries[i]) = 0 /\ j < i

\* The first of the sorted entries outside S.
FirstLeast(entries, S) ==
    CHOOSE i \in (1..Len(entries)) \ S :
        \A j \in (1..Len(entries)) \ S : ~SortsBefore(entries, j, i)

AddLeast(entries, S) == S \cup {FirstLeast(entries, S)}

\* The positions of the first k entries of the stable ascending sort.
RECURSIVE SortedPrefix(_, _)
SortedPrefix(entries, k) ==
    IF k = 0 THEN {} ELSE AddLeast(entries, SortedPrefix(entries, k - 1))

\* The subsets of 1..n with k elements.
RECURSIVE KSubsets(_, _)
KSubsets(n, k) ==
    IF k = 0 THEN {{}}
    ELSE UNION {{S \cup {i} : i \in (1..n) \ S} : S \in KSubsets(n, k - 1)}

\* entries.sort(...).slice(0, entries.length - MAX_ENTRIES), as sets of
\* positions: with a consistent comparator the prefix of the stable sort,
\* with an inconsistent one the order is implementation-defined and any
\* entries can come first.
SliceChoices(entries) ==
    IF Len(entries) <= MAX_ENTRIES THEN {{}}
    ELSE IF ConsistentComparator(entries)
    THEN {SortedPrefix(entries, Len(entries) - MAX_ENTRIES)}
    ELSE KSubsets(Len(entries), Len(entries) - MAX_ENTRIES)

\* The position of the j-th entry that is not at a position in S.
KeptAt(S, j) ==
    CHOOSE i \in j..(j + Cardinality(S)) :
        i \notin S /\ i - Cardinality({x \in S : x < i}) = j

\* The entries without those at the positions in S.
Without(entries, S) ==
    [j \in 1..(Len(entries) - Cardinality(S)) |-> entries[KeptAt(S, j)]]

\* Variant: only the expired entries are deleted, the surplus stays.
evictIfNeeded_ExpiredOnly(st, t, toRemove) ==
    IF Len(st) <= MAX_ENTRIES THEN st ELSE Unexpired(st, t)

\* Variant: the surplus is taken from the entries inserted last.
evictIfNeeded_Newest(st, t, toRemove) ==
    IF Len(st) <= MAX_ENTRIES THEN st
    ELSE IF Len(Unexpired(st, t)) <= MAX_ENTRIES THEN Unexpired(st, t)
    ELSE SubSeq(Unexpired(st, t), 1, MAX_ENTRIES)

\* evictIfNeeded; toRemove is what the sort put first.
evictIfNeeded(st, t, toRemove) ==
    IF Len(st) <= MAX_ENTRIES THEN st
    ELSE IF Len(Unexpired(st, t)) <= MAX_ENTRIES THEN Unexpired(st, t)
    ELSE Without(Unexpired(st, t), toRemove)

\* What the sort of evictIfNeeded can put first.
EvictChoices(st, t) ==
    IF Len(st) <= MAX_ENTRIES THEN {{}} ELSE SliceChoices(Unexpired(st, t))

\* Variant: an entry is still served at the instant it expires.
cacheGet_Strict(st, provider, category, args, t) ==
    LET key == makeKey(provider, category, args)
        k == StoreIndex(st, key)
    IN  IF k = 0 THEN [store |-> st, value |-> Undefined]
        ELSE IF NumLE(st[k].expiresAt, t - 1)
             THEN [store |-> RemoveAt(st, k), value |-> Undefined]
             ELSE [store |-> st, value |-> st[k].data]

\* get: [store, value]; an expired entry is deleted on the way.
cacheGet(st, provider, category, args, t) ==
    LET key == makeKey(provider, category, args)
        k == StoreIndex(st, key)
    IN  IF k = 0 THEN [store |-> st, value |-> Undefined]
        ELSE IF NumLE(st[k].expiresAt, t)
             THEN [store |-> RemoveAt(st, k), value |-> Undefined]
             ELSE [store |-> st, value |-> st[k].data]

\* set: the store after the write and the eviction.
cacheSet(st, provider, category, args, data, t, toRemove) ==
    LET entry == NewEntry(provider, category, args, data, t)
        written == storeSet(st, entry)
    IN  evictIfNeeded(written, t, toRemove)

\* evictIfNeeded gets as far as its sort.
reachesSort(st, t) ==
    Len(st) > MAX_ENTRIES /\ Len(Unexpired(st, t)) > MAX_ENTRIES

\* The eviction of this set gets as far as its sort.
cacheSetSorts(st, provider, category, args, data, t) ==
    LET entry == NewEntry(provider, category, args, data, t)
        written == storeSet(st, entry)
    IN  reachesSort(written, t)

\* The outcomes of the sort a set can run into.
cacheSetChoices(st, provider, category, args, data, t) ==
    LET entry == NewEntry(provider, category, args, data, t)
        written == storeSet(st, entry)
    IN  EvictChoices(written, t)

cacheClear(st) == <<>>

cacheSize(st) == Len(st)

\* --------------------------------------------------------- provider registry
\* Variant: a later registration replaces the descriptor held under the name.
registerProviderList_LastWins(provs, provider) ==
    IF \E k \in 1..Len(provs) : provs[k].name = provider.name
    THEN [k \in 1..Len(provs) |->
            IF provs[k].name = provider.name THEN provider ELSE provs[k]]
    ELSE Append(provs, provider)

\* registerProvider: the registry after registering provider.
registerProviderList(provs, provider) ==
    IF \E k \in 1..Len(provs) : provs[k].name = provider.name
    THEN provs
    ELSE Append(provs, provider)

getProviders(provs) == provs

\* Variant: a missing priority reads as 0.
PriorityOf_DefaultZero(p, category) ==
    IF category \in DOMAIN p.priority THEN p.priority[category] ELSE 0

\* a.priority[category] ?? 99
PriorityOf(p, category) ==
    IF category \in DOMAIN p.priority THEN p.priority[category] ELSE DEFAULT_PRIORITY

\* Provider.isEnabled(): a keyless provider is always enabled, a keyed one
\* when its credential is configured.
isEnabled(p, keys) == ~p.requiresKey \/ p.name \in keys

\* Variant: the configured disabled-set is not consulted.
FilterProviders_NoDisabled(provs, category, keys, disabled) ==
    SelectSeq(provs, LAMBDA p : /\ category \in p.capabilities
                                /\ isEnabled(p, keys))

\* Variant: the capability filter is missing.
FilterProviders_NoCapability(provs, category, keys, disabled) ==
    SelectSeq(provs, LAMBDA p : /\ isEnabled(p, keys)
                                /\ p.name \notin disabled)

\* The three filters of getProvidersForCategory.
FilterProviders(provs, category, keys, disabled) ==
    SelectSeq(provs, LAMBDA p : /\ category \in p.capabilities
                                /\ isEnabled(p, keys)
                                /\ p.name \notin disabled)

\* The comparator calls canRequest only on two providers of equal priority,
\* and a comparison sort compares every provider with a neighbour of its
\* final position: the buckets touched are those of the providers that share
\* their priority with another element of the list.
SortTouched(list, category) ==
    {list[i].name : i \in {i \in 1..Len(list) :
        \E j \in 1..Len(list) :
            j # i /\ PriorityOf(list[j], category) = PriorityOf(list[i], category)}}

\* canRequest(p.name, p.rateLimits) ? 0 : 1
Headroom(p, bs, t) ==
    IF canRequest(bs, p.name, RateLimits(p), t).ok THEN 0 ELSE 1

\* The sort comparator: negative when a sorts before b.
CompareProviders(a, b, category, bs, t) ==
    IF PriorityOf(a, category) # PriorityOf(b, category)
    THEN PriorityOf(a, category) - PriorityOf(b, category)
    ELSE Headroom(a, bs, t) - Headroom(b, bs, t)

\* Array.prototype.sort is stable: element i moves behind every element that
\* compares lower, and behind the earlier elements that compare equal.
StableSort(list, category, bs, t) ==
    LET n == Len(list)
        before(j, i) ==
            LET c == CompareProviders(list[j], list[i], category, bs, t)
            IN  c < 0 \/ (c = 0 /\ j < i)
        rank(i) == 1 + Cardinality({j \in 1..n : j # i /\ before(j, i)})
    IN  [k \in 1..n |-> list[CHOOSE i \in 1..n : rank(i) = k]]

\* getProvidersForCategory: [list, buckets]
getProvidersForCategory(provs, category, keys, disabled, bs, t) ==
    LET filtered == FilterProviders(provs, category, keys, disabled)
        touched == SortTouched(filtered, category)
        config(n) == RateLimits(CHOOSE p \in Range(filtered) : p.name = n)
        bs2 == [n \in DOMAIN bs |->
                  IF n \in touched THEN canRequest(bs, n, config(n), t).buckets[n]
                  ELSE bs[n]]
    IN  [list |-> StableSort(filtered, category, bs2, t), buckets |-> bs2]

\* ------------------------------------------------------------------ route()
NoResult == [data |-> Undefined, source |-> NoSource, cached |-> FALSE]

NoError ==
    [kind |-> "none", source |-> NoSource, category |-> "", action |-> "",
     sources |-> <<>>, last |-> <<>>]

IdleCall ==
    [pc |-> "idle", category |-> "", action |-> "", args |-> <<>>,
     source |-> NoSource, noCache |-> FALSE, candidates |-> <<>>, idx |-> 0,
     errors |-> <<>>, execLog |-> <<>>, rateLimited |-> FALSE,
     result |-> NoResult, error |-> NoError, overlaps |-> {}]

\* { action, ...args }: action is the first property; a key named action
\* inside args replaces its value.
cacheKeyObj(action, args) ==
    IF \E i \in 1..Len(args) : args[i].key = "action"
    THEN <<Prop("action", ValueOf(args, "action"))>>
             \o SelectSeq(args, LAMBDA q : q.key # "action")
    ELSE <<Prop("action", Str(action))>> \o args

\* for (const p of providers) { cache.get(p.name, ...); if (cached_data) return }
\* from position k on: [store, value, source]
RECURSIVE scanCache(_, _, _, _, _, _)
scanCache(provs, k, st, category, keyObj, t) ==
    IF k > Len(provs)
    THEN [store |-> st, value |-> Undefined, source |-> NoSource]
    ELSE LET g == cacheGet(st, provs[k].name, category, keyObj, t)
         IN  IF Truthy(g.value)
             THEN [store |-> g.store, value |-> g.value, source |-> provs[k].name]
             ELSE scanCache(provs, k + 1, g.store, category, keyObj, t)

\* Variant: the cache check runs whatever options.noCache says.
cacheCheck_IgnoreNoCache(provs, st, category, action, args, source, noCache, t) ==
    IF source # NoSource
    THEN LET g == cacheGet(st, source, category, cacheKeyObj(action, args), t)
         IN  [store |-> g.store, value |-> g.value, source |-> source]
    ELSE scanCache(provs, 1, st, category, cacheKeyObj(action, args), t)

\* The cache check at the head of route(): [store, value, source]
cacheCheck(provs, st, category, action, args, source, noCache, t) ==
    IF noCache
    THEN [store |-> st, value |-> Undefined, source |-> NoSource]
    ELSE IF source # NoSource
         THEN LET g == cacheGet(st, source, category, cacheKeyObj(action, args), t)
              IN  [store |-> g.store, value |-> g.value, source |-> source]
         ELSE scanCache(provs, 1, st, category, cacheKeyObj(action, args), t)

\* Variant: the loop walks the candidate list from its end.
invokeExecute_Reversed(call, k, bs, t) ==
    LET provider == call.candidates[Len(call.candidates) + 1 - k]
        ct == consumeToken(bs, provider.name, RateLimits(provider), t)
    IN  [call |-> [call EXCEPT !.pc = "awaiting", !.idx = k,
                               !.execLog = Append(@, provider.id),
                               !.rateLimited = ~ct.ok],
         buckets |-> ct.buckets]

\* provider.execute(...) is called on candidate k; the provider consumes a
\* token of its bucket before any I/O and throws when there is none.
\* [call, buckets]
invokeExecute(call, k, bs, t) ==
    LET provider == call.candidates[k]
        ct == consumeToken(bs, provider.name, RateLimits(provider), t)
    IN  [call |-> [call EXCEPT !.pc = "awaiting", !.idx = k,
                               !.execLog = Append(@, provider.id),
                               !.rateLimited = ~ct.ok],
         buckets |-> ct.buckets]

\* What the pending execute of a call can settle with.
RateLimitMessage(p) == <<p.name, "rate limit exceeded">>

DownMessage(p) == <<p.name, "down">>

Outcomes(call) ==
    LET provider == call.candidates[call.idx]
    IN  IF call.rateLimited
        THEN {[ok |-> FALSE, data |-> Undefined, message |-> RateLimitMessage(provider)]}
        ELSE {[ok |-> TRUE, data |-> d, message |-> <<>>] : d \in provider.payloads}
             \cup {[ok |-> FALSE, data |-> Undefined, message |-> DownMessage(provider)]}

\* Variant: the forced source is moved to the front, the others stay behind it.
forceSource_Prefer(list, source) ==
    IF source # NoSource
    THEN SelectSeq(list, LAMBDA p : p.name = source)
         \o SelectSeq(list, LAMBDA p : p.name # source)
    ELSE list

\* if (options.source) candidates = candidates.filter(p => p.name === source)
forceSource(list, source) ==
    IF source # NoSource
    THEN SelectSeq(list, LAMBDA p : p.name = source)
    ELSE list

\* Variant: the aggregate error carries the first failure, errors[0].
allProvidersFailed_FirstError(call, errors) ==
    [NoError EXCEPT !.kind = "AllProvidersFailed",
                    !.category = call.category,
                    !.action = call.action,
                    !.sources = [k \in 1..Len(call.candidates) |-> call.candidates[k].name],
                    !.last = errors[1]]

\* The error thrown after the fallback loop ran out of candidates.
allProvidersFailed(call, errors) ==
    [NoError EXCEPT !.kind = "AllProvidersFailed",
                    !.category = call.category,
                    !.action = call.action,
                    !.sources = [k \in 1..Len(call.candidates) |-> call.candidates[k].name],
                    !.last = errors[Len(errors)]]

\* route() from its call to its first await (or to its return or throw):
\* [call, store, buckets]
routeBegin(category, action, args, source, noCache, provs, keys, disabled, bs, st, t) ==
    LET call0 == [IdleCall EXCEPT !.category = category, !.action = action,
                                  !.args = args, !.source = source,
                                  !.noCache = noCache]
        check == cacheCheck(provs, st, category, action, args, source, noCache, t)
        sel == getProvidersForCategory(provs, category, keys, disabled, bs, t)
        candidates == forceSource(sel.list, source)
    IN  IF Truthy(check.value)
        THEN [call |-> [call0 EXCEPT !.pc = "resolved",
                            !.result = [data |-> check.value, source |-> check.source,
                                        cached |-> TRUE]],
              store |-> check.store, buckets |-> bs]
        ELSE IF source # NoSource /\ Len(candidates) = 0
        THEN [call |-> [call0 EXCEPT !.pc = "rejected",
                            !.error = [NoError EXCEPT !.kind = "SourceNotAvailable",
                                           !.source = source, !.category = category]],
              store |-> check.store, buckets |-> sel.buckets]
        ELSE IF Len(candidates) = 0
        THEN [call |-> [call0 EXCEPT !.pc = "rejected",
                            !.error = [NoError EXCEPT !.kind = "NoProvidersAvailable",
                                           !.category = category]],
              store |-> check.store, buckets |-> sel.buckets]
        ELSE LET inv == invokeExecute([call0 EXCEPT !.candidates = candidates],
                                      1, sel.buckets, t)
             IN  [call |-> inv.call, store |-> check.store, buckets |-> inv.buckets]

\* Variant: a success with candidates left starts the next candidate too.
routeResume_StartsNext(call, outcome, bs, st, t, toRemove) ==
    LET errors == Append(call.errors, outcome.message)
    IN  IF call.idx < Len(call.candidates)
        THEN LET inv == invokeExecute(IF outcome.ok THEN call
                                      ELSE [call EXCEPT !.errors = errors],
                                      call.idx + 1, bs, t)
             IN  [call |-> inv.call, store |-> st, buckets |-> inv.buckets]
        ELSE IF outcome.ok
        THEN [call |-> [call EXCEPT !.pc = "resolved",
                            !.result = [data |-> outcome.data,
                                        source |-> call.candidates[call.idx].name,
                                        cached |-> FALSE]],
              store |-> st, buckets |-> bs]
        ELSE [call |-> [call EXCEPT !.pc = "rejected", !.errors = errors,
                            !.error = allProvidersFailed(call, errors)],
              store |-> st, buckets |-> bs]

\* Variant: after a failure the same candidate is invoked again.
routeResume_RetriesSame(call, outcome, bs, st, t, toRemove) ==
    LET provider == call.candidates[call.idx]
        errors == Append(call.errors, outcome.message)
    IN  IF outcome.ok
        THEN [call |-> [call EXCEPT !.pc = "resolved",
                            !.result = [data |-> outcome.data, source |-> provider.name,
                                        cached |-> FALSE]],
              store |-> IF ~call.noCache
                        THEN cacheSet(st, provider.name, call.category,
                                      cacheKeyObj(call.action, call.args),
                                      outcome.data, t, toRemove)
                        ELSE st,
              buckets |-> bs]
        ELSE LET inv == invokeExecute([call EXCEPT !.errors = errors],
                                      call.idx, bs, t)
             IN  [call |-> inv.call, store |-> st, buckets |-> inv.buckets]

\* Variant: the result is cached under the name of the first candidate.
routeResume_CachesUnderFirst(call, outcome, bs, st, t, toRemove) ==
    LET provider == call.candidates[call.idx]
        errors == Append(call.errors, outcome.message)
    IN  IF outcome.ok
        THEN [call |-> [call EXCEPT !.pc = "resolved",
                            !.result = [data |-> outcome.data, source |-> provider.name,
                                        cached |-> FALSE]],
              store |-> IF ~call.noCache
                        THEN cacheSet(st, call.candidates[1].name, call.category,
                                      cacheKeyObj(call.action, call.args),
                                      outcome.data, t, toRemove)
                        ELSE st,
              buckets |-> bs]
        ELSE IF call.idx < Len(call.candidates)
        THEN LET inv == invokeExecute([call EXCEPT !.errors = errors],
                                      call.idx + 1, bs, t)
             IN  [call |-> inv.call, store |-> st, buckets |-> inv.buckets]
        ELSE [call |-> [call EXCEPT !.pc = "rejected", !.errors = errors,
                            !.error = allProvidersFailed(call, errors)],
              store |-> st, buckets |-> bs]

\* route() resumes when the awaited execute settles with outcome:
\* [call, store, buckets]
routeResume(call, outcome, bs, st, t, toRemove) ==
    LET provider == call.candidates[call.idx]
        errors == Append(call.errors, outcome.message)
    IN  IF outcome.ok
        THEN [call |-> [call EXCEPT !.pc = "resolved",
                            !.result = [data |-> outcome.data, source |-> provider.name,
                                        cached |-> FALSE]],
              store |-> IF ~call.noCache
                        THEN cacheSet(st, provider.name, call.category,
                                      cacheKeyObj(call.action, call.args),
                                      outcome.data, t, toRemove)
                        ELSE st,
              buckets |-> bs]
        ELSE IF call.idx < Len(call.candidates)
        THEN LET inv == invokeExecute([call EXCEPT !.errors = errors],
                                      call.idx + 1, bs, t)
             IN  [call |-> inv.call, store |-> st, buckets |-> inv.buckets]
        ELSE [call |-> [call EXCEPT !.pc = "rejected", !.errors = errors,
                            !.error = allProvidersFailed(call, errors)],
              store |-> st, buckets |-> bs]

\* The outcomes of the sort that the cache.set of a resumed call can run into.
resumeChoices(call, outcome, st, t) ==
    IF outcome.ok /\ ~call.noCache
    THEN cacheSetChoices(st, call.candidates[call.idx].name, call.category,
                         cacheKeyObj(call.action, call.args), outcome.data, t)
    ELSE {{}}

\* ------------------------------------------------------------------ actions
\* No direct call has been observed.
NoObs == [op |-> "none"]

Init ==
    /\ providers = <<>>
    /\ apiKeys = {}
    /\ disabledSources = {}
    /\ buckets = [n \in Names |-> NoBucket]
    /\ store = <<>>
    /\ now = 0
    /\ calls = [i \in 1..MaxCalls |-> IdleCall]
    /\ firstReg = [n \in Names |-> 0]
    /\ dupTried = FALSE
    /\ obs = NoObs

\* Providers are registered at startup, before the first route() call.
registerProvider(provider) ==
    /\ \A i \in 1..MaxCalls : calls[i].pc = "idle"
    /\ providers' = registerProviderList(providers, provider)
    /\ firstReg' = IF firstReg[provider.name] = 0
                   THEN [firstReg EXCEPT ![provider.name] = provider.id]
                   ELSE firstReg
    /\ dupTried' = (dupTried \/ firstReg[provider.name] # 0)
    /\ UNCHANGED <<apiKeys, disabledSources, buckets, store, now, calls, obs>>

\* saveConfig({<key>: value}): a credential is set or removed.
SetApiKey(n, present) ==
    /\ apiKeys' = IF present THEN apiKeys \cup {n} ELSE apiKeys \ {n}
    /\ apiKeys' # apiKeys
    /\ UNCHANGED <<providers, disabledSources, buckets, store, now, calls, firstReg, dupTried, obs>>

\* saveConfig({disabledSources: [...]})
SetDisabledSources(S) ==
    /\ S # disabledSources
    /\ disabledSources' = S
    /\ UNCHANGED <<providers, apiKeys, buckets, store, now, calls, firstReg, dupTried, obs>>

\* The clock advances.
Tick ==
    /\ now + TickMs <= MaxTicks * TickMs
    /\ now' = now + TickMs
    /\ UNCHANGED <<providers, apiKeys, disabledSources, buckets, store, calls, firstReg, dupTried, obs>>

\* cache.clear()
Clear ==
    /\ store # <<>>
    /\ store' = cacheClear(store)
    /\ UNCHANGED <<providers, apiKeys, disabledSources, buckets, now, calls, firstReg, dupTried, obs>>

\* route(category, action, args, {source, noCache}) is called; overlaps
\* records the calls whose execute had not settled yet at that moment.
Route(i, category, action, args, source, noCache) ==
    /\ calls[i].pc = "idle"
    /\ IF i = 1 THEN TRUE ELSE calls[i - 1].pc # "idle"
    /\ LET r == routeBegin(category, action, args, source, noCache, providers,
                           apiKeys, disabledSources, buckets, store, now)
       IN  /\ calls' = [calls EXCEPT ![i] = [r.call EXCEPT !.overlaps =
                                   {k \in 1..MaxCalls : calls[k].pc = "awaiting"}]]
           /\ store' = r.store
           /\ buckets' = r.buckets
    /\ UNCHANGED <<providers, apiKeys, disabledSources, now, firstReg, dupTried, obs>>

\* The execute a call awaits settles and the call runs on.
Settle(i, outcome) ==
    /\ calls[i].pc = "awaiting"
    /\ outcome \in Outcomes(calls[i])
    /\ \E toRemove \in resumeChoices(calls[i], outcome, store, now) :
        LET r == routeResume(calls[i], outcome, buckets, store, now, toRemove)
        IN  /\ calls' = [calls EXCEPT ![i] = r.call]
            /\ store' = r.store
            /\ buckets' = r.buckets
    /\ UNCHANGED <<providers, apiKeys, disabledSources, now, firstReg, dupTried, obs>>

AllOutcomes ==
    UNION {{[ok |-> TRUE, data |-> d, message |-> <<>>] : d \in p.payloads}
           \cup {[ok |-> FALSE, data |-> Undefined, message |-> RateLimitMessage(p)],
                 [ok |-> FALSE, data |-> Undefined, message |-> DownMessage(p)]}
           : p \in Descriptors}

Next ==
    \/ \E d \in Descriptors : registerProvider(d)
    \/ \E n \in KeyedNames, present \in BOOLEAN : SetApiKey(n, present)
    \/ \E S \in SUBSET DisableCandidates : SetDisabledSources(S)
    \/ Tick
    \/ Clear
    \/ \E i \in 1..MaxCalls, category \in RouteCategories, action \in RouteActions,
          args \in RouteArgs, source \in RouteSources, noCache \in BOOLEAN :
            Route(i, category, action, args, source, noCache)
    \/ \E i \in 1..MaxCalls, outcome \in AllOutcomes : Settle(i, outcome)

Spec == Init /\ [][Next]_vars

\* Every invoked execute eventually settles.  This is weak fairness of the
\* settle step of call i, written out: the step is enabled exactly while
\* call i is awaiting and is the only one that takes the call on from there,
\* so either the call is again and again not awaiting, or the step is taken
\* again and again.
ExecuteEventuallySettles(i) ==
    \/ []<>(calls[i].pc # "awaiting")
    \/ []<><<calls[i].pc = "awaiting" /\ calls'[i] # calls[i]>>_vars

\* route() calls under fair settling; the event loop runs a call on as soon
\* as the promise it awaits has settled.
MaxFairCalls == 1

FairNext ==
    \/ \E d \in Descriptors : registerProvider(d)
    \/ \E n \in KeyedNames, present \in BOOLEAN : SetApiKey(n, present)
    \/ \E S \in SUBSET DisableCandidates : SetDisabledSources(S)
    \/ Tick
    \/ \E i \in 1..MaxFairCalls, category \in RouteCategories, action \in RouteActions,
          args \in RouteArgs, source \in RouteSources, noCache \in BOOLEAN :
            Route(i, category, action, args, source, noCache)
    \/ \E i \in 1..MaxFairCalls, outcome \in AllOutcomes : Settle(i, outcome)

FairSpec ==
    Init /\ [][FairNext]_vars /\ \A i \in 1..MaxFairCalls : ExecuteEventuallySettles(i)

\* ------------------------------------------------- limiter specification
\* The exported limiter functions called directly, as the tests and the
\* providers' execute do, in any order and for any source.
MaxLimiterTicks == 1

LimiterSteps == {500, 17400}

LimiterSources == {"a"}

\* { maxRequests: 3, windowMs: 1000 }
TestConfig == [maxRequests |-> 3, windowMs |-> 1000]

\* createMockProvider: rateLimits: { maxRequests: 100, windowMs: 60_000 }
MockConfig == [maxRequests |-> 100, windowMs |-> 60000]

LimiterConfigs == {TestConfig, MockConfig}

\* op, source, at: the last call; ok / remaining: what it returned; elapsed:
\* the time since the bucket's previous refill as that call saw it;
\* createdAt: when the source's bucket was created; burstAt, burstCount: the
\* instant of the source's last granted consumeToken and how many were
\* granted at that instant; ticks: clock advances so far; anchor: the
\* source's bucket as its creation or its last granted consumeToken left it;
\* granted: the consumeToken calls that returned true since the bucket's
\* creation.
LimiterObs ==
    [op |-> "none", source |-> NoSource, ok |-> FALSE, remaining |-> 0,
     elapsed |-> 0, at |-> 0, ticks |-> 0,
     createdAt |-> [n \in Names |-> NaN],
     burstAt |-> [n \in Names |-> NaN],
     burstCount |-> [n \in Names |-> 0],
     anchor |-> [n \in Names |-> NoBucket],
     granted |-> [n \in Names |-> 0]]

LimiterInit ==
    /\ providers = <<>>
    /\ apiKeys = {}
    /\ disabledSources = {}
    /\ buckets = [n \in Names |-> NoBucket]
    /\ store = <<>>
    /\ now = 0
    /\ calls = [i \in 1..MaxCalls |-> IdleCall]
    /\ firstReg = [n \in Names |-> 0]
    /\ dupTried = FALSE
    /\ obs = LimiterObs

\* The record of a call of op on source at the current instant.
Observed(op, source, config, ok, remaining) ==
    [obs EXCEPT
        !.op = op, !.source = source, !.ok = ok, !.remaining = remaining,
        !.elapsed = now - getBucket(buckets, source, config, now).lastRefill,
        !.at = now,
        !.createdAt[source] = IF buckets[source] = NoBucket THEN now ELSE @,
        !.anchor[source] =
            IF buckets[source] = NoBucket
            THEN getBucket(buckets, source, config, now) ELSE @]

CallCanRequest(source, config) ==
    /\ LET r == canRequest(buckets, source, config, now)
       IN  /\ buckets' = r.buckets
           /\ obs' = Observed("canRequest", source, config, r.ok, 0)
    /\ UNCHANGED <<providers, apiKeys, disabledSources, store, now, calls, firstReg, dupTried>>

CallConsumeToken(source, config) ==
    /\ LET r == consumeToken(buckets, source, config, now)
           o == Observed("consumeToken", source, config, r.ok, 0)
       IN  /\ buckets' = r.buckets
           /\ obs' = IF r.ok
                     THEN [o EXCEPT
                             !.burstAt[source] = now,
                             !.burstCount[source] =
                                 IF obs.burstAt[source] = now THEN @ + 1 ELSE 1,
                             !.anchor[source] = r.buckets[source],
                             !.granted[source] = @ + 1]
                     ELSE o
    /\ UNCHANGED <<providers, apiKeys, disabledSources, store, now, calls, firstReg, dupTried>>

CallGetRemaining(source, config) ==
    /\ LET r == getRemaining(buckets, source, config, now)
       IN  /\ buckets' = r.buckets
           /\ obs' = Observed("getRemaining", source, config, FALSE, r.remaining)
    /\ UNCHANGED <<providers, apiKeys, disabledSources, store, now, calls, firstReg, dupTried>>

CallResetBucket(source) ==
    /\ buckets' = resetBucket(buckets, source)
    /\ obs' = [obs EXCEPT
                 !.op = "resetBucket", !.source = source, !.ok = FALSE,
                 !.remaining = 0, !.elapsed = 0, !.at = now,
                 !.createdAt[source] = NaN, !.burstAt[source] = NaN,
                 !.burstCount[source] = 0,
                 !.anchor[source] = NoBucket, !.granted[source] = 0]
    /\ UNCHANGED <<providers, apiKeys, disabledSources, store, now, calls, firstReg, dupTried>>

\* The clock advances between two calls, at most maxTicks times in a run.
AdvanceWithin(step, maxTicks) ==
    /\ obs.ticks < maxTicks
    /\ now' = now + step
    /\ obs' = [obs EXCEPT !.ticks = @ + 1]
    /\ UNCHANGED <<providers, apiKeys, disabledSources, buckets, store, calls, firstReg, dupTried>>

Advance(step) == AdvanceWithin(step, MaxLimiterTicks)

LimiterNext ==
    \/ \E source \in LimiterSources, config \in LimiterConfigs :
          CallCanRequest(source, config)
    \/ \E source \in LimiterSources, config \in LimiterConfigs :
          CallConsumeToken(source, config)
    \/ \E source \in LimiterSources, config \in LimiterConfigs :
          CallGetRemaining(source, config)
    \/ \E source \in LimiterSources : CallResetBucket(source)
    \/ \E step \in LimiterSteps : Advance(step)

LimiterSpec == LimiterInit /\ [][LimiterNext]_vars

\* --------------------------------------------- refill-path specification
\* One bucket under sec-edgar's limits, called at up to three instants: the
\* same span of time is crossed in one advance or in two with calls between.
MaxRefillTicks == 2

\* secEdgar: rateLimits: { maxRequests: 10, windowMs: 1000 }
SecEdgarConfig == [maxRequests |-> 10, windowMs |-> 1000]

RefillNext ==
    \/ \E source \in LimiterSources : CallCanRequest(source, SecEdgarConfig)
    \/ \E source \in LimiterSources : CallConsumeToken(source, SecEdgarConfig)
    \/ \E source \in LimiterSources : CallGetRemaining(source, SecEdgarConfig)
    \/ \E source \in LimiterSources : CallResetBucket(source)
    \/ \E step \in {1, 299, 300} : AdvanceWithin(step, MaxRefillTicks)

RefillSpec == LimiterInit /\ [][RefillNext]_vars

\* -------------------------------------------------- lookup specification
\* route() on a store that callers of the exported cache module also write:
\* cache.set is called directly for the requests that route() looks up.
MaxLookupCalls == 1

\* cache.set(provider, category, { action, ...args }, data), called directly.
DirectSet(provider, category, action, args, data) ==
    /\ \A i \in 1..MaxCalls : calls[i].pc = "idle"
    /\ \E toRemove \in cacheSetChoices(store, provider, category,
                                      cacheKeyObj(action, args), data, now) :
          store' = cacheSet(store, provider, category, cacheKeyObj(action, args),
                            data, now, toRemove)
    /\ store' # store
    /\ UNCHANGED <<providers, apiKeys, disabledSources, buckets, now, calls, firstReg, dupTried, obs>>

LookupNext ==
    \/ \E d \in Descriptors : registerProvider(d)
    \/ \E n \in KeyedNames, present \in BOOLEAN : SetApiKey(n, present)
    \/ \E provider \in Names, category \in RouteCategories, action \in {"get"},
          args \in RouteArgs, data \in {1} :
            DirectSet(provider, category, action, args, data)
    \/ Tick
    \/ \E i \in 1..MaxLookupCalls, category \in RouteCategories, action \in {"get"},
          args \in RouteArgs, noCache \in BOOLEAN :
            Route(i, category, action, args, NoSource, noCache)
    \/ \E i \in 1..MaxLookupCalls, outcome \in AllOutcomes : Settle(i, outcome)

LookupSpec == Init /\ [][LookupNext]_vars

\* ----------------------------------------------- isolation specification
\* route() called with two action strings and with args objects that may
\* themselves carry a property named action.
IsolationNext ==
    \/ \E d \in Descriptors : registerProvider(d)
    \/ Tick
    \/ \E i \in 1..MaxCalls, category \in {"quote"},
          action \in {"get", "list"},
          args \in {<<Prop("symbol", Str("X"))>>, <<Prop("action", Str("list"))>>} :
            Route(i, category, action, args, NoSource, FALSE)
    \/ \E i \in 1..MaxCalls, outcome \in AllOutcomes : Settle(i, outcome)

IsolationSpec == Init /\ [][IsolationNext]_vars

\* --------------------------------------------------- cache specification
\* The exported cache functions called directly, as the tests do, in any
\* order, with the clock advancing between the calls.
MaxCacheTicks == 2

MaxCacheCalls == 3

\* One step short of the quote TTL, and the step that completes it.
CacheSteps == {1, 29999}

CacheProviders == {"prov"}

CacheCategories == {"quote", "history"}

\* { symbol: 'X', id: 1 }, the same pairs in the other order, { symbol: 'X' }
CacheArgs ==
    {<<Prop("symbol", Str("X")), Prop("id", Num(1))>>,
     <<Prop("id", Num(1)), Prop("symbol", Str("X"))>>,
     <<Prop("symbol", Str("X"))>>}

CacheData == {1, 2}

\* op, provider, category, args, data, at: the last call; value: what it
\* returned; sizeBefore: the size of the store when it was made; calls,
\* ticks: calls and clock advances so far; filled: iterations of the fill
\* loop so far; sorts: set calls so far whose eviction sorted the store;
\* written: the set calls so far that no later set for the same request and
\* no clear has superseded.
CacheObs ==
    [op |-> "none", provider |-> "", category |-> "", args |-> <<>>,
     data |-> Undefined, value |-> Undefined, at |-> 0, sizeBefore |-> 0,
     calls |-> 0, ticks |-> 0, filled |-> 0, sorts |-> 0, written |-> {}]

CacheInit ==
    /\ providers = <<>>
    /\ apiKeys = {}
    /\ disabledSources = {}
    /\ buckets = [n \in Names |-> NoBucket]
    /\ store = <<>>
    /\ now = 0
    /\ calls = [i \in 1..MaxCalls |-> IdleCall]
    /\ firstReg = [n \in Names |-> 0]
    /\ dupTried = FALSE
    /\ obs = CacheObs

\* Two requests with the same provider, category and key/value pairs.
SameRequest(w, provider, category, args) ==
    /\ w.provider = provider
    /\ w.category = category
    /\ Range(w.args) = Range(args)

\* The record of a call of op at the current instant.
ObservedCache(op, provider, category, args, data, value) ==
    [obs EXCEPT
        !.op = op, !.provider = provider, !.category = category,
        !.args = args, !.data = data, !.value = value, !.at = now,
        !.sizeBefore = Len(store), !.calls = @ + 1]

\* cache.set(provider, category, args, data)
CallSet(provider, category, args, data, maxCalls) ==
    /\ obs.calls < maxCalls
    /\ \E toRemove \in cacheSetChoices(store, provider, category, args, data, now) :
          store' = cacheSet(store, provider, category, args, data, now, toRemove)
    /\ obs' = [ObservedCache("set", provider, category, args, data, Undefined)
                 EXCEPT !.sorts =
                    IF cacheSetSorts(store, provider, category, args, data, now)
                    THEN @ + 1 ELSE @,
                        !.written =
                    {w \in @ : ~SameRequest(w, provider, category, args)}
                    \cup {[provider |-> provider, category |-> category,
                           args |-> args, data |-> data, at |-> now]}]
    /\ UNCHANGED <<providers, apiKeys, disabledSources, buckets, now, calls, firstReg, dupTried>>

\* cache.get(provider, category, args)
CallGet(provider, category, args, maxCalls) ==
    /\ obs.calls < maxCalls
    /\ LET g == cacheGet(store, provider, category, args, now)
       IN  /\ store' = g.store
           /\ obs' = ObservedCache("get", provider, category, args, Undefined, g.value)
    /\ UNCHANGED <<providers, apiKeys, disabledSources, buckets, now, calls, firstReg, dupTried>>

\* cache.clear()
CallClear(maxCalls) ==
    /\ obs.calls < maxCalls
    /\ store' = cacheClear(store)
    /\ obs' = [ObservedCache("clear", "", "", <<>>, Undefined, Undefined)
                 EXCEPT !.written = {}]
    /\ UNCHANGED <<providers, apiKeys, disabledSources, buckets, now, calls, firstReg, dupTried>>

\* cache.size()
CallSize(maxCalls) ==
    /\ obs.calls < maxCalls
    /\ obs' = ObservedCache("size", "", "", <<>>, Undefined, cacheSize(store))
    /\ UNCHANGED <<providers, apiKeys, disabledSources, buckets, store, now, calls, firstReg, dupTried>>

\* The clock advances between two calls.
AdvanceCache(step, maxTicks) ==
    /\ obs.ticks < maxTicks
    /\ now' = now + step
    /\ obs' = [obs EXCEPT !.ticks = @ + 1]
    /\ UNCHANGED <<providers, apiKeys, disabledSources, buckets, store, calls, firstReg, dupTried>>

CacheNext ==
    \/ \E provider \in CacheProviders, category \in CacheCategories,
          args \in CacheArgs, data \in CacheData :
            CallSet(provider, category, args, data, MaxCacheCalls)
    \/ \E provider \in CacheProviders, category \in CacheCategories,
          args \in CacheArgs :
            CallGet(provider, category, args, MaxCacheCalls)
    \/ CallClear(MaxCacheCalls)
    \/ CallSize(MaxCacheCalls)
    \/ \E step \in CacheSteps : AdvanceCache(step, MaxCacheTicks)

CacheSpec == CacheInit /\ [][CacheNext]_vars

\* ----------------------------------------------------- key specification
\* The cache called with provider names and argument keys that contain the
\* separators of the key format.
MaxKeyCalls == 2

MaxKeyTicks == 1

\* { b: 'X' }, { 'quote:b': 'X' }, { a: 'X', b: 'X' }, { 'a="X"&b': 'X' }
KeyArgs ==
    {<<Prop("b", Str("X"))>>,
     <<Prop("quote:b", Str("X"))>>,
     <<Prop("a", Str("X")), Prop("b", Str("X"))>>,
     <<Prop("a=\"X\"&b", Str("X"))>>}

KeyNext ==
    \/ \E provider \in {"a", "a:quote"}, category \in {"quote"},
          args \in KeyArgs, data \in CacheData :
            CallSet(provider, category, args, data, MaxKeyCalls)
    \/ \E provider \in {"a", "a:quote"}, category \in {"quote"},
          args \in KeyArgs :
            CallGet(provider, category, args, MaxKeyCalls)
    \/ \E step \in CacheSteps : AdvanceCache(step, MaxKeyTicks)

KeySpec == CacheInit /\ [][KeyNext]_vars

\* ------------------------------------------------ eviction specification
\* The cache functions called on a store that the fill loop of the eviction
\* test has taken to MAX_ENTRIES.
MaxEvictionCalls == 2

MaxEvictionSets == 2

MaxEvictionSorts == 1

MaxEvictionTicks == 1

\* The loop stopped one entry short of a full store, at a full store, and
\* run to its end.
FillCounts == {499, 500, 501}

MaxFill == 501

\* The step after which the first 250 entries of the loop have expired.
EvictionSteps == {3599750}

\* { id: 0 }, { id: 500 }: the first and the last of the loop; { id: 501 }
IdArgs(i) == <<Prop("id", Num(i))>>

\* The requests made after the loop: with a short TTL, with the TTL of the
\* loop's entries, and without a TTL.
EvictionRequests ==
    {[category |-> "financials", args |-> IdArgs(i)] : i \in {0, 500, 501}}
    \cup {[category |-> c, args |-> IdArgs(501)] : c \in {"quote", "history"}}

EvictionData == {7}

\* One iteration of the test's loop, which runs first, on the cleared store:
\* vi.advanceTimersByTime(1); cache.set('prov', 'financials', { id: i }, { val: i })
FillStep ==
    /\ obs.op \in {"none", "fill"}
    /\ obs.filled < MaxFill
    /\ now' = now + 1
    /\ \E toRemove \in cacheSetChoices(store, "prov", "financials",
                                       IdArgs(obs.filled), obs.filled, now + 1) :
          store' = cacheSet(store, "prov", "financials", IdArgs(obs.filled),
                            obs.filled, now + 1, toRemove)
    /\ obs' = [obs EXCEPT !.op = "fill", !.at = now + 1,
                          !.sizeBefore = Len(store), !.filled = @ + 1]
    /\ UNCHANGED <<providers, apiKeys, disabledSources, buckets, calls, firstReg, dupTried>>

\* The loop has stopped.
LoopDone == obs.filled \in FillCounts

EvictionNext ==
    \/ FillStep
    \/ \E r \in EvictionRequests, data \in EvictionData :
          /\ LoopDone
          /\ Cardinality(obs.written) < MaxEvictionSets
          /\ obs.sorts < MaxEvictionSorts
          /\ CallSet("prov", r.category, r.args, data, MaxEvictionCalls)
    \/ \E r \in EvictionRequests :
          LoopDone /\ CallGet("prov", r.category, r.args, MaxEvictionCalls)
    \/ LoopDone /\ CallClear(MaxEvictionCalls)
    \/ LoopDone /\ CallSize(MaxEvictionCalls)
    \/ \E step \in EvictionSteps :
          LoopDone /\ AdvanceCache(step, MaxEvictionTicks)

EvictionSpec == CacheInit /\ [][EvictionNext]_vars

\* ---------------------------------------------------------------- properties
Started(c) == c.pc # "idle"

Settled(c) == c.pc \in {"resolved", "rejected"}

\* The descriptor ids of the first n candidates of a call, in order.
CandidateIds(c, n) == [k \in 1..n |-> c.candidates[k].id]

\* C1 -- Fallback order: a call that missed the cache and has candidates
\* c1..cn invokes execute on them strictly in that order, each at most once;
\* every candidate before the current one failed, nothing after the current
\* one has been executed, and a resolved call returns the result of the
\* candidate it stopped at.
C1_FallbackOrder ==
    \A i \in 1..MaxCalls :
        LET c == calls[i]
        IN  (Started(c) /\ Len(c.candidates) > 0) =>
                /\ c.idx \in 1..Len(c.candidates)
                /\ c.execLog = CandidateIds(c, c.idx)
                /\ Len(c.errors) = IF c.pc = "rejected" THEN c.idx ELSE c.idx - 1
                /\ \A k \in 1..Len(c.errors) : c.errors[k][1] = c.candidates[k].name
                /\ c.pc = "resolved" =>
                      /\ c.result.source = c.candidates[c.idx].name
                      /\ c.result.data \in c.candidates[c.idx].payloads
                      /\ c.result.cached = FALSE

\* A call whose first candidate failed and whose second candidate succeeded.
C1_Witness ==
    \E i \in 1..MaxCalls :
        /\ calls[i].pc = "resolved"
        /\ Len(calls[i].candidates) = 2
        /\ calls[i].idx = 2
        /\ Len(calls[i].errors) = 1
        /\ calls[i].result.source = calls[i].candidates[2].name

\* C2 -- Total failure: when every candidate's execute has failed the call is
\* rejected with the single aggregate error, which names every candidate in
\* the order tried and carries the message of the last failure; each
\* candidate was executed exactly once, and an aggregate error is raised only
\* then.
C2_TotalFailure ==
    \A i \in 1..MaxCalls :
        LET c == calls[i]
            n == Len(c.candidates)
        IN  /\ (Started(c) /\ n > 0 /\ Len(c.errors) = n) =>
                  /\ c.pc = "rejected"
                  /\ c.error.kind = "AllProvidersFailed"
            /\ (c.pc = "rejected" /\ n > 0) =>
                  /\ c.error.kind = "AllProvidersFailed"
                  /\ c.error.sources = [k \in 1..n |-> c.candidates[k].name]
                  /\ c.execLog = CandidateIds(c, n)
                  /\ Len(c.errors) = n
                  /\ c.error.last = c.errors[n]
                  /\ c.error.last[1] = c.candidates[n].name
                  /\ c.result = NoResult
            /\ c.error.kind = "AllProvidersFailed" => (c.pc = "rejected" /\ n > 0)

\* A call rejected with the aggregate error after two candidates failed.
C2_Witness ==
    \E i \in 1..MaxCalls :
        /\ calls[i].pc = "rejected"
        /\ calls[i].error.kind = "AllProvidersFailed"
        /\ Len(calls[i].error.sources) = 2
        /\ calls[i].errors[1] # calls[i].errors[2]

\* Call j is the route() call made in this step.
RouteStep(j) == calls[j].pc = "idle" /\ calls'[j].pc # "idle"

\* The cache key of call c's request under provider name.
RequestKey(name, c) == makeKey(name, c.category, cacheKeyObj(c.action, c.args))

\* The store holds an entry under key that has not expired at time t.
LiveEntry(st, key, t) ==
    \E k \in 1..Len(st) : st[k].key = key /\ ~NumLE(st[k].expiresAt, t)

EntryData(st, key) == st[StoreIndex(st, key)].data

\* C3 -- Cache hit on repeat: once a call without noCache has returned from
\* provider p, a later call with the same category, action, args and options
\* that starts while the entry written for p is still stored and unexpired
\* returns cached:true with the same data and source p, and invokes no execute.
C3_RepeatHit ==
    [][\A j \in 1..MaxCalls : \A i \in 1..MaxCalls :
          LET first == calls[i]
              key == RequestKey(first.result.source, first)
          IN  ( /\ RouteStep(j)
                /\ i # j
                /\ first.pc = "resolved"
                /\ ~first.result.cached
                /\ ~first.noCache
                /\ calls'[j].category = first.category
                /\ calls'[j].action = first.action
                /\ calls'[j].args = first.args
                /\ calls'[j].source = first.source
                /\ ~calls'[j].noCache
                /\ LiveEntry(store, key, now)
                /\ EntryData(store, key) = first.result.data )
              => /\ calls'[j].pc = "resolved"
                 /\ calls'[j].result = [data |-> first.result.data,
                                        source |-> first.result.source,
                                        cached |-> TRUE]
                 /\ calls'[j].execLog = <<>>]_vars

\* The candidate list route() would work with for call c in the current state.
CandidatesNow(c) ==
    forceSource(getProvidersForCategory(providers, c.category, apiKeys,
                                        disabledSources, buckets, now).list,
                c.source)

\* C4 -- noCache bypass: no step of a call made with noCache changes the
\* cache store; such a call never returns a cached result, and when it is
\* made it invokes execute on its first candidate (it is rejected at once
\* only when there is no candidate at all), live cache entry or not.
C4_NoCacheBypass ==
    [][\A j \in 1..MaxCalls :
          (calls'[j] # calls[j] /\ calls'[j].noCache) =>
              /\ store' = store
              /\ ~calls'[j].result.cached
              /\ RouteStep(j) =>
                    IF Len(CandidatesNow(calls'[j])) > 0
                    THEN /\ calls'[j].pc = "awaiting"
                         /\ calls'[j].execLog = <<CandidatesNow(calls'[j])[1].id>>
                    ELSE /\ calls'[j].pc = "rejected"
                         /\ calls'[j].execLog = <<>>]_vars

\* A noCache call got a fresh result from a provider while the store held a
\* live entry for the same request under that provider.
C4_Witness ==
    \E j \in 1..MaxCalls :
        /\ calls[j].noCache
        /\ calls[j].pc = "awaiting"
        /\ LiveEntry(store, RequestKey(calls[j].candidates[1].name, calls[j]), now)
        /\ Truthy(EntryData(store, RequestKey(calls[j].candidates[1].name, calls[j])))

\* The descriptor with the given id.
DescriptorById(id) == CHOOSE d \in Descriptors : d.id = id

\* C5 -- Forced source exclusivity: a call with options.source = s invokes
\* execute on no provider other than s and at most once; a result it returns
\* carries source s; when s's execute fails the call is rejected without any
\* other provider being tried.
C5_ForcedSource ==
    \A i \in 1..MaxCalls :
        LET c == calls[i]
        IN  (Started(c) /\ c.source # NoSource) =>
                /\ \A k \in 1..Len(c.execLog) : DescriptorById(c.execLog[k]).name = c.source
                /\ Len(c.execLog) <= 1
                /\ c.pc = "resolved" => c.result.source = c.source
                /\ Len(c.errors) > 0 =>
                      /\ c.pc = "rejected"
                      /\ c.error.sources = <<c.source>>

\* A forced call returned a fresh result from its source although another
\* enabled provider has a strictly lower priority number for the category.
C5_Witness ==
    \E i \in 1..MaxCalls :
        /\ calls[i].source = "b"
        /\ calls[i].pc = "resolved"
        /\ ~calls[i].result.cached
        /\ calls[i].result.source = "b"
        /\ \E k \in 1..Len(providers) :
              /\ providers[k].name # "b"
              /\ calls[i].category \in providers[k].capabilities
              /\ PriorityOf(providers[k], calls[i].category)
                    < PriorityOf(calls[i].candidates[1], calls[i].category)

\* Source s cannot serve category now: it is unregistered, lacks the
\* category, reports isEnabled() false, or is in the disabled-set.
Unavailable(s, category) ==
    ~\E k \in 1..Len(providers) :
        /\ providers[k].name = s
        /\ category \in providers[k].capabilities
        /\ (~providers[k].requiresKey \/ s \in apiKeys)
        /\ s \notin disabledSources

\* The generic error of a category nobody can serve.
NoProvidersError(category) ==
    [NoError EXCEPT !.kind = "NoProvidersAvailable", !.category = category]

SourceNotAvailableError(s, category) ==
    [NoError EXCEPT !.kind = "SourceNotAvailable", !.source = s, !.category = category]

\* C6 (as claimed) -- Forced source unavailable: in every reachable state a
\* call whose forced source is unavailable is rejected with the
\* source-not-available error naming that source and invokes no execute.
C6_AlwaysRejected ==
    [][\A j \in 1..MaxCalls :
          (RouteStep(j) /\ calls'[j].source # NoSource
             /\ Unavailable(calls'[j].source, calls'[j].category)) =>
              /\ calls'[j].pc = "rejected"
              /\ calls'[j].error =
                    SourceNotAvailableError(calls'[j].source, calls'[j].category)
              /\ calls'[j].execLog = <<>>]_vars

\* C6 (amended) -- a call whose forced source is unavailable invokes no
\* execute; it is rejected with the source-not-available error naming that
\* source unless the cache check at the head of route() finds the request
\* under that name (noCache unset, entry unexpired, data truthy), and then it
\* returns that entry with cached:true.
C6_RejectedUnlessCached ==
    [][\A j \in 1..MaxCalls :
          LET c == calls'[j]
              key == RequestKey(c.source, c)
              hit == /\ ~c.noCache
                     /\ LiveEntry(store, key, now)
                     /\ Truthy(EntryData(store, key))
          IN  (RouteStep(j) /\ c.source # NoSource
                 /\ Unavailable(c.source, c.category)) =>
                  /\ c.execLog = <<>>
                  /\ IF hit
                     THEN /\ c.pc = "resolved"
                          /\ c.result = [data |-> EntryData(store, key),
                                         source |-> c.source, cached |-> TRUE]
                     ELSE /\ c.pc = "rejected"
                          /\ c.error = SourceNotAvailableError(c.source, c.category)]_vars

\* A forced call to a registered, capable but disabled source was rejected
\* while the store held an entry written under that name.
C6_Witness ==
    \E j \in 1..MaxCalls :
        /\ calls[j].pc = "rejected"
        /\ calls[j].error.kind = "SourceNotAvailable"
        /\ calls[j].noCache
        /\ \E k \in 1..Len(providers) :
              /\ providers[k].name = calls[j].source
              /\ calls[j].category \in providers[k].capabilities
        /\ LiveEntry(store, RequestKey(calls[j].source, calls[j]), now)

C8_Diagnostics ==
    [][\A j \in 1..MaxCalls :
          (RouteStep(j) /\ calls'[j].source = NoSource
             /\ calls'[j].pc = "rejected"
             /\ \E k \in 1..Len(providers) :
                   calls'[j].category \in providers[k].capabilities) =>
              calls'[j].error # NoProvidersError(calls'[j].category)]_vars

\* C9 -- Registry uniqueness and first-wins: the registry never holds two
\* descriptors with the same name; the descriptor held for a name is the
\* first one registered under it (so a duplicate registration changed
\* nothing), and every execute that route() invokes is the first
\* registrant's.
C9_FirstWins ==
    /\ \A k, l \in 1..Len(providers) :
          providers[k].name = providers[l].name => k = l
    /\ \A k \in 1..Len(providers) : providers[k].id = firstReg[providers[k].name]
    /\ \A n \in Names :
          firstReg[n] # 0 => \E k \in 1..Len(providers) : providers[k].name = n
    /\ \A i \in 1..MaxCalls : \A k \in 1..Len(calls[i].execLog) :
          calls[i].execLog[k] = firstReg[DescriptorById(calls[i].execLog[k]).name]

\* After a registration under a taken name was attempted, a call executed a
\* provider.
C9_Witness ==
    /\ dupTried
    /\ \E i \in 1..MaxCalls :
          /\ Len(calls[i].execLog) > 0
          /\ \E d \in Descriptors :
                /\ d.id # calls[i].execLog[1]
                /\ d.name = DescriptorById(calls[i].execLog[1]).name

\* Position of a provider in the registry.
RegistryIndex(p) == CHOOSE k \in 1..Len(providers) : providers[k] = p

\* C10 -- Candidate selection and order: getProvidersForCategory returns
\* exactly the registered providers that list the category, are enabled and
\* are not in the disabled-set, each once, by ascending priority (a missing
\* priority counting as 99); among equal priorities a provider that can
\* request precedes one that cannot, and otherwise registration order is
\* kept.  Headroom never outranks a strictly lower priority number.
C10_SelectionOrder ==
    \A category \in RouteCategories :
        LET r == getProvidersForCategory(providers, category, apiKeys,
                                         disabledSources, buckets, now).list
            prio(p) == IF category \in DOMAIN p.priority THEN p.priority[category] ELSE 99
            ok(p) == canRequest(buckets, p.name, RateLimits(p), now).ok
        IN  /\ Range(r) = {p \in Range(providers) :
                              /\ category \in p.capabilities
                              /\ (~p.requiresKey \/ p.name \in apiKeys)
                              /\ p.name \notin disabledSources}
            /\ \A k, l \in 1..Len(r) : r[k] = r[l] => k = l
            /\ \A k, l \in 1..Len(r) :
                  k < l =>
                      /\ prio(r[k]) <= prio(r[l])
                      /\ prio(r[k]) = prio(r[l]) => (ok(r[k]) \/ ~ok(r[l]))
                      /\ (prio(r[k]) = prio(r[l]) /\ ok(r[k]) = ok(r[l])) =>
                            RegistryIndex(r[k]) < RegistryIndex(r[l])

\* Two candidates of equal priority come out against registration order
\* because only the later one has a token left, and two candidates of
\* different priority keep their priority order although only the lower
\* ranked one has a token left.
C10_Witness ==
    /\ providers = <<D1, D3>>
    /\ getProvidersForCategory(providers, "history", apiKeys, disabledSources,
                               buckets, now).list = <<D3, D1>>
    /\ getProvidersForCategory(providers, "quote", apiKeys, disabledSources,
                               buckets, now).list = <<D1, D3>>

\* ------------------------------------------------------------ rate limiter
\* The bucket of a source that has one.
HasBucket(n) == buckets[n] # NoBucket

\* A limb tuple that is a number: limbs in range, nothing below zero.
WellFormed(x) ==
    /\ x[1] >= 0
    /\ \A k \in 2..NumLimbs : x[k] \in 0..(LimbBase - 1)

\* The last call was op on source n, made at the current instant.
JustCalled(op, n) == obs.op = op /\ obs.source = n /\ obs.at = now

\* C11: in every reachable state every bucket holds a token count between 0
\* and the maxRequests of the configuration it was created with, whatever
\* sequence of canRequest, consumeToken, getRemaining and resetBucket calls
\* and clock advances led there.
C11_TokenBounds ==
    \A n \in Names :
        HasBucket(n) =>
            /\ WellFormed(buckets[n].tokens)
            /\ ~FLess(buckets[n].tokens, FZero)
            /\ ~FLess(FromInt(buckets[n].maxRequests), buckets[n].tokens)

\* A bucket that granted a token, was touched again after the clock moved and
\* is back at its cap.
C11_Witness ==
    \E n \in Names :
        /\ HasBucket(n)
        /\ obs.op # "none"
        /\ obs.burstAt[n] # NaN
        /\ obs.burstAt[n] < now
        /\ JustCalled(obs.op, n)
        /\ obs.elapsed > 0
        /\ buckets[n].tokens = FromInt(buckets[n].maxRequests)

\* A step that is a call of op on source n.
CallStep(op, n) ==
    /\ now' = now
    /\ obs'.op = op
    /\ obs'.source = n
    /\ obs' # obs \/ buckets' # buckets

\* The bucket of n as a call made now finds it after its refill; the config
\* of the call matters only when the bucket has to be created.
RefilledNow(n, config) == refill(getBucket(buckets, n, config, now), now)

\* x = y - 1, limb by limb.
OneLess(x, y) == x = [y EXCEPT ![1] = @ - 1]

\* While the clock stands at the instant the bucket of n was created, the
\* bucket holds maxRequests minus the tokens granted, and a call was refused
\* only after maxRequests had been granted.
FreshBurst(n) ==
    (HasBucket(n) /\ obs.createdAt[n] = now) =>
        /\ obs.burstCount[n] <= buckets[n].maxRequests
        /\ buckets[n].tokens = FromInt(buckets[n].maxRequests - obs.burstCount[n])
        /\ (JustCalled("consumeToken", n) /\ ~obs.ok) =>
               obs.burstCount[n] = buckets[n].maxRequests

\* C12: a consumeToken call refills; with fewer than 1 token it returns false
\* and leaves the refilled count as it is, otherwise it returns true and the
\* count drops by exactly 1; no other bucket changes.  On a bucket created at
\* the current instant the first maxRequests calls are granted and every
\* further call at that instant is refused.
C12_ConsumeSemantics ==
    [][\A n \in Names :
          /\ CallStep("consumeToken", n) =>
                /\ \A m \in Names \ {n} : buckets'[m] = buckets[m]
                /\ \E config \in LimiterConfigs :
                      LET b == RefilledNow(n, config)
                      IN  IF FLess(b.tokens, FromInt(1))
                          THEN ~obs'.ok /\ buckets'[n] = b
                          ELSE /\ obs'.ok
                               /\ OneLess(buckets'[n].tokens, b.tokens)
                               /\ buckets'[n] = [b EXCEPT !.tokens = buckets'[n].tokens]
          /\ FreshBurst(n)']_vars

\* { maxRequests: 3 }: three calls granted on the fresh bucket, and the call
\* after them refused at the same instant.
C12_Witness ==
    \E n \in Names :
        /\ HasBucket(n)
        /\ buckets[n].maxRequests = TestConfig.maxRequests
        /\ obs.createdAt[n] = now
        /\ obs.burstCount[n] = TestConfig.maxRequests
        /\ JustCalled("consumeToken", n)
        /\ ~obs.ok

\* C13: a canRequest or getRemaining call changes nothing but the refill of
\* the bucket it names, so a call at the instant of the bucket's last refill
\* changes no bucket at all; canRequest answers what consumeToken would
\* answer at that instant; getRemaining returns the integer r in
\* 0..maxRequests with r <= tokens < r + 1, and the bucket keeps the
\* unfloored count.
C13_ReadOnly ==
    [][\A n \in Names :
          (CallStep("canRequest", n) \/ CallStep("getRemaining", n)) =>
              /\ \A m \in Names \ {n} : buckets'[m] = buckets[m]
              /\ \E config \in LimiterConfigs : buckets'[n] = RefilledNow(n, config)
              /\ (HasBucket(n) /\ buckets[n].lastRefill = now) => buckets' = buckets
              /\ obs'.op = "canRequest" =>
                    \A config \in LimiterConfigs :
                        obs'.ok = consumeToken(buckets', n, config, now).ok
              /\ obs'.op = "getRemaining" =>
                    /\ obs'.remaining \in 0..buckets'[n].maxRequests
                    /\ ~FLess(buckets'[n].tokens, FromInt(obs'.remaining))
                    /\ FLess(buckets'[n].tokens, FromInt(obs'.remaining + 1))]_vars

\* getRemaining has just returned 1 for a bucket that holds 1.5 tokens.
C13_Witness ==
    \E n \in Names :
        /\ HasBucket(n)
        /\ JustCalled("getRemaining", n)
        /\ obs.remaining = 1
        /\ ~IsInt(buckets[n].tokens)
        /\ FAdd(buckets[n].tokens, buckets[n].tokens) = FromInt(3)

\* The bucket of n was emptied by maxRequests granted calls at one instant
\* and nothing has been granted since.
Exhausted(n) ==
    /\ HasBucket(n)
    /\ obs.burstAt[n] # NaN
    /\ obs.burstCount[n] = buckets[n].maxRequests

\* C14: a bucket emptied at one instant and next touched e ms later by
\* getRemaining reports min(maxRequests, floor(e * maxRequests / windowMs)),
\* and canRequest at e = 0 answers false.
C14_ProportionalRefill ==
    \A n \in Names :
        (Exhausted(n) /\ obs.at - obs.elapsed = obs.burstAt[n]) =>
            /\ JustCalled("getRemaining", n) =>
                  obs.remaining =
                      Min(buckets[n].maxRequests,
                          (obs.elapsed * buckets[n].maxRequests)
                              \div buckets[n].windowMs)
            /\ (JustCalled("canRequest", n) /\ obs.elapsed = 0) => ~obs.ok

\* An entry set at w.at has not reached the end of its category's TTL at t;
\* an entry of a category without a TTL never does.
BeforeExpiry(w, t) ==
    TTL(w.category) = Undefined \/ t < w.at + TTL(w.category)

\* The last direct cache call was a get that asked for what w had set.
GotFor(w) ==
    obs.op = "get" /\ SameRequest(w, obs.provider, obs.category, obs.args)

\* C15 -- Cache key order-independence: a get whose args hold the same
\* top-level key/value pairs as the args of an earlier set for the same
\* provider and category, in whatever key order, returns the value that set
\* stored, as long as the entry has not expired (and was not overwritten,
\* cleared or evicted).
C15_KeyOrderIndependence ==
    \A w \in obs.written :
        (GotFor(w) /\ BeforeExpiry(w, obs.at)) => obs.value = w.data

\* A get returned the value that a set had stored at an earlier time under
\* the same pairs written in the other key order.
C15_Witness ==
    \E w \in obs.written :
        /\ GotFor(w)
        /\ w.args # obs.args
        /\ Len(w.args) = 2
        /\ obs.at > w.at
        /\ obs.value = w.data

\* This step is a direct call of op.
CacheStep(op) == obs'.op = op /\ obs'.calls = obs.calls + 1

Keys(st) == {st[k].key : k \in 1..Len(st)}

\* The key of the request of the call that this step makes.
CalledKey == makeKey(obs'.provider, obs'.category, obs'.args)

\* A get step serves an unexpired written entry unchanged and drops an
\* expired one.
GetByTTL ==
    CacheStep("get") =>
        \A w \in obs.written :
            (/\ SameRequest(w, obs'.provider, obs'.category, obs'.args)
             /\ TTL(w.category) # Undefined) =>
                IF now < w.at + TTL(w.category)
                THEN (obs'.value = w.data /\ store' = store)
                ELSE (obs'.value = Undefined /\ CalledKey \notin Keys(store'))

\* A step that is no set and no clear removes at most the expired entry
\* that a get asked for.
LazyRemoval ==
    (obs'.calls = obs.calls \/ CacheStep("get") \/ CacheStep("size")) =>
        \A k \in 1..Len(store) :
            store[k].key \notin Keys(store') =>
                (/\ CacheStep("get")
                 /\ store[k].key = CalledKey
                 /\ NumLE(store[k].expiresAt, now))

\* C16 -- TTL boundary with lazy expiration: a get for an entry that was set
\* at time t under a category with TTL d (and not overwritten, cleared or
\* evicted since) returns the stored value and leaves the store alone at
\* every time below t + d, and returns absent and removes the entry at every
\* time from t + d on; the passing of time, size() and a get for another
\* request remove no entry, expired or not.
C16_TTLBoundary == [][GetByTTL /\ LazyRemoval]_vars

\* A get exactly at t + d found the entry expired and removed it, while
\* another entry stayed in the store.
C16_Witness ==
    \E w \in obs.written :
        /\ GotFor(w)
        /\ TTL(w.category) # Undefined
        /\ obs.at = w.at + TTL(w.category)
        /\ obs.value = Undefined
        /\ makeKey(obs.provider, obs.category, obs.args) \notin Keys(store)
        /\ store # <<>>

\* C17 -- Every category has a TTL: the entry that a set for any category
\* route() accepts leaves in the store has the finite expiresAt
\* now + TTL(category).
C17_EveryCategoryHasTTL ==
    (obs.op = "set" /\ obs.category \in Categories) =>
        \E k \in 1..Len(store) :
            /\ store[k].key = makeKey(obs.provider, obs.category, obs.args)
            /\ TTL(obs.category) # Undefined
            /\ store[k].expiresAt # NaN
            /\ store[k].expiresAt = obs.at + TTL(obs.category)

\* C18 -- Cache size bound: the store never holds more than MAX_ENTRIES
\* entries; in particular size() <= MAX_ENTRIES after every set, whatever
\* set, get and clear calls came before.
C18_SizeBound == cacheSize(store) <= MAX_ENTRIES

\* A set of a new key met a full store and left it full.
C18_Witness ==
    /\ obs.op = "set"
    /\ obs.sizeBefore = MAX_ENTRIES
    /\ cacheSize(store) = MAX_ENTRIES
    /\ StoreIndex(store, makeKey("prov", "financials", IdArgs(0))) = 0

\* This step is a get for the request of the set that the last call was,
\* at the time of that set.
GetAfterSet ==
    /\ obs.op = "set"
    /\ CacheStep("get")
    /\ obs'.provider = obs.provider
    /\ obs'.category = obs.category
    /\ obs'.args = obs.args
    /\ obs.at = now

OwnEntryEvictable ==
    /\ obs.sizeBefore = MAX_ENTRIES
    /\ cacheSize(store) = MAX_ENTRIES
    /\ \/ TTL(obs.category) = Undefined
       \/ \E k \in 1..Len(store) : store[k].expiresAt = NaN
       \/ \A k \in 1..Len(store) :
             store[k].expiresAt > obs.at + TTL(obs.category)

StartedExecutes(c) == Len(c.execLog)

SettledExecutes(c) ==
    Len(c.errors) + IF c.pc = "resolved" /\ ~c.result.cached THEN 1 ELSE 0

\* At most one execute of a call is unsettled, and one is exactly while the
\* call awaits.
OneInFlight(c) ==
    /\ StartedExecutes(c) - SettledExecutes(c) \in {0, 1}
    /\ StartedExecutes(c) - SettledExecutes(c) = 1 <=> c.pc = "awaiting"

\* A step in which a call starts an execute starts one, that of the next
\* candidate; unless it is the first, the same step has settled the execute
\* of the candidate before it with a failure.
StartsAfterFailure(c, d) ==
    StartedExecutes(d) > StartedExecutes(c) =>
        /\ d.execLog = Append(c.execLog, d.candidates[StartedExecutes(c) + 1].id)
        /\ d.pc = "awaiting"
        /\ d.idx = StartedExecutes(c) + 1
        /\ StartedExecutes(c) > 0 =>
              (/\ c.pc = "awaiting"
               /\ d.candidates = c.candidates
               /\ Len(d.errors) = Len(c.errors) + 1
               /\ Len(d.errors) = StartedExecutes(c)
               /\ d.errors[Len(d.errors)][1] = c.candidates[c.idx].name)

\* C20 -- Sequential attempts inside one route(): at every moment at most
\* one execute issued by a route() call is unsettled, and the execute of
\* candidate k+1 is started only by the step in which the execute of
\* candidate k settles with a failure.
C20_SequentialAttempts ==
    [][\A i \in 1..MaxCalls :
          OneInFlight(calls'[i]) /\ StartsAfterFailure(calls[i], calls'[i])]_vars

\* A call awaits its second candidate after its first one failed, while the
\* other call awaits too.
C20_Witness ==
    \E i, j \in 1..MaxCalls :
        /\ i # j
        /\ calls[i].pc = "awaiting"
        /\ calls[i].idx = 2
        /\ Len(calls[i].execLog) = 2
        /\ Len(calls[i].errors) = 1
        /\ calls[j].pc = "awaiting"

\* The store as the write of this set step leaves it, before the eviction.
SetWritten ==
    storeSet(store, NewEntry(obs'.provider, obs'.category, obs'.args,
                             obs'.data, now))

\* Entry s expires before entry e does; an expiresAt of NaN never expires.
ExpiresEarlier(s, e) ==
    /\ s.expiresAt # NaN
    /\ e.expiresAt = NaN \/ s.expiresAt < e.expiresAt

\* What a set step may remove from the store it has written to.
EvictionPolicy(written, live) ==
    IF Len(written) <= MAX_ENTRIES THEN store' = written
    ELSE IF Len(live) <= MAX_ENTRIES THEN store' = live
    ELSE /\ Len(store') = MAX_ENTRIES
         /\ Range(store') \subseteq Range(live)
         /\ \A s \in Range(store'), e \in Range(live) \ Range(store') :
               ~ExpiresEarlier(s, e)

\* C21 -- Eviction policy: a set that leaves at most MAX_ENTRIES entries
\* after its write removes nothing; otherwise it deletes the entries with
\* expiresAt <= now, and only if the store is still over the limit it
\* deletes exactly size - MAX_ENTRIES more, such that every surviving entry
\* expires no earlier than every evicted one.
C21_EvictionPolicy ==
    [][CacheStep("set") =>
          EvictionPolicy(SetWritten, Unexpired(SetWritten, now))]_vars

\* The bucket of source n as a single refill from its anchor up to the
\* bucket's last refill instant leaves it.
OneRefill(n) == refill(obs.anchor[n], buckets[n].lastRefill)

\* C22 -- Refill is path-independent: while no consumeToken succeeds on a
\* bucket, the count that getRemaining reports is the one a single refill
\* over the whole span gives, whatever calls touched the bucket in between.
C22_PathIndependence ==
    obs.op = "getRemaining" =>
        obs.remaining = FFloor(OneRefill(obs.source).tokens)

\* C24 -- Rate bound of the bucket: for a bucket created at time t0 and not
\* reset, the consumeToken calls that returned true up to the current time t
\* number at most maxRequests + (t - t0) * maxRequests / windowMs.
C24_RateBound ==
    \A n \in LimiterSources :
        buckets[n] # NoBucket =>
            obs.granted[n] * buckets[n].windowMs
                <= buckets[n].maxRequests * buckets[n].windowMs
                   + (now - obs.createdAt[n]) * buckets[n].maxRequests

\* The bound is met with equality after the initial burst and a refill.
C24_Witness ==
    \E n \in LimiterSources :
        /\ buckets[n] # NoBucket
        /\ obs.granted[n] > buckets[n].maxRequests
        /\ obs.granted[n] * buckets[n].windowMs
               = buckets[n].maxRequests * buckets[n].windowMs
                 + (now - obs.createdAt[n]) * buckets[n].maxRequests

\* The registry positions of the providers under whose name the store holds
\* an unexpired entry for call c's request.
LiveHolders(c) ==
    {k \in 1..Len(providers) :
        LiveEntry(store, RequestKey(providers[k].name, c), now)}

CapableHolders(c) ==
    {k \in LiveHolders(c) : c.category \in providers[k].capabilities}

FirstOf(S) == CHOOSE k \in S : \A m \in S : k <= m

\* Call j starts unforced, with the cache check on, while several registered
\* providers hold a live entry for its request.
LookupAmongSeveral(j) ==
    /\ RouteStep(j)
    /\ calls'[j].source = NoSource
    /\ ~calls'[j].noCache
    /\ Cardinality(LiveHolders(calls'[j])) >= 2
    /\ CapableHolders(calls'[j]) # {}

ReturnsEntryOf(j, name) ==
    /\ calls'[j].pc = "resolved"
    /\ calls'[j].result =
           [data |-> EntryData(store, RequestKey(name, calls'[j])),
            source |-> name, cached |-> TRUE]

\* C23 -- Unforced cache lookup order: with no source forced and live entries
\* for the request under several providers, route() returns the entry of the
\* provider that is first in registration order among the providers capable
\* of the category.
C23_LookupOrder ==
    [][\A j \in 1..MaxCalls :
          LookupAmongSeveral(j) =>
              ReturnsEntryOf(j, providers[FirstOf(CapableHolders(calls'[j]))].name)]_vars

\* Call j starts and is served the entry that call i wrote after its execute
\* succeeded.
ReadsEntryOf(j, i) ==
    /\ RouteStep(j)
    /\ calls'[j].pc = "resolved" /\ calls'[j].result.cached
    /\ calls[i].pc = "resolved" /\ ~calls[i].result.cached /\ ~calls[i].noCache
    /\ calls'[j].result.source = calls[i].result.source
    /\ RequestKey(calls[i].result.source, calls'[j])
           = RequestKey(calls[i].result.source, calls[i])

\* C25 -- Action isolation in the cache: two route() calls with the same
\* category and provider but different action strings never read or write
\* the same cache entry, whatever their args objects are: a call is never
\* served the entry written by a call with another action string.
C25_ActionIsolation ==
    [][\A i \in 1..MaxCalls, j \in 1..MaxCalls :
          (ReadsEntryOf(j, i) /\ calls'[j].category = calls[i].category)
              => calls'[j].action = calls[i].action]_vars

\* C26 -- Cache key injectivity: a get returns data only if a set for the
\* same provider, category and set of key/value pairs stored it, also for
\* provider names and argument keys that contain ':', '=' or '&'.
C26_KeyInjectivity ==
    (obs.op = "get" /\ obs.value # Undefined) =>
        \E w \in obs.written :
            /\ SameRequest(w, obs.provider, obs.category, obs.args)
            /\ obs.value = w.data

\* The provider names whose entries the cache check of call c consults.
LookedUp(c) ==
    IF c.source # NoSource THEN {c.source}
    ELSE {providers[k].name : k \in 1..Len(providers)}

\* Call j starts with the cache check on while the store holds an unexpired
\* entry for its request under a name the check consults.
StartsOnLiveEntry(j) ==
    /\ RouteStep(j)
    /\ ~calls'[j].noCache
    /\ \E n \in LookedUp(calls'[j]) :
          LiveEntry(store, RequestKey(n, calls'[j]), now)

\* C27 -- Cache hit detection in route() does not depend on the payload:
\* whatever data a successful execute returned, a call that finds the entry
\* within its TTL is served from the cache with cached:true and invokes no
\* execute.
C27_PayloadIndependentHit ==
    [][\A j \in 1..MaxCalls :
          StartsOnLiveEntry(j) =>
              /\ calls'[j].pc = "resolved"
              /\ calls'[j].result.cached
              /\ calls'[j].execLog = <<>>]_vars

\* Calls i and j ask for the same category, action and args.
IdenticalRequests(c, d) ==
    c.category = d.category /\ c.action = d.action /\ c.args = d.args

\* The store holds no entry for call c's request, under any provider name.
NoEntryFor(c) ==
    \A n \in Names : StoreIndex(store, RequestKey(n, c)) = 0

\* Call j starts while the identical call i awaits its execute, the store
\* holds nothing for the request and call j has a candidate: call j invokes
\* execute too.
SecondExecutes(j, i) ==
    ( /\ RouteStep(j)
      /\ i \in calls'[j].overlaps
      /\ IdenticalRequests(calls[i], calls'[j])
      /\ NoEntryFor(calls'[j])
      /\ CandidatesNow(calls'[j]) # <<>> )
        => ( calls'[j].pc = "awaiting" /\ Len(calls'[j].execLog) = 1 )

\* One of two overlapping identical calls resolves: it returns cached:false,
\* and unless it was made with noCache the store then holds one entry for
\* its provider and request, with the data and the expiry of this call.
SettleOverwrites(j, i) ==
    ( /\ calls[j].pc = "awaiting" /\ calls'[j].pc = "resolved"
      /\ i \in calls[j].overlaps \/ j \in calls[i].overlaps
      /\ IdenticalRequests(calls[i], calls[j]) )
        => ( /\ ~calls'[j].result.cached
             /\ calls[j].noCache
                \/ SelectSeq(store', LAMBDA e :
                        e.key = RequestKey(calls'[j].result.source, calls[j]))
                      = <<NewEntry(calls'[j].result.source, calls[j].category,
                                   cacheKeyObj(calls[j].action, calls[j].args),
                                   calls'[j].result.data, now)>> )

\* C28 -- Overlapping identical requests are not coalesced: each of two
\* overlapping route() calls for the same request invokes execute and
\* returns cached:false, and after both succeeded the store holds one entry
\* for the provider and request, that of the call whose execute settled last.
C28_NoCoalescing ==
    [][\A i \in 1..MaxCalls, j \in 1..MaxCalls :
          SecondExecutes(j, i) /\ SettleOverwrites(j, i)]_vars

\* Two overlapping identical calls were both resolved by the same provider,
\* the later one after the clock had advanced, and the entry left is the
\* later one's.
C28_Witness ==
    \E i \in 1..MaxCalls, j \in 1..MaxCalls :
        /\ i \in calls[j].overlaps
        /\ IdenticalRequests(calls[i], calls[j])
        /\ calls[i].pc = "resolved" /\ calls[j].pc = "resolved"
        /\ ~calls[i].noCache /\ ~calls[j].noCache
        /\ ~calls[i].result.cached /\ ~calls[j].result.cached
        /\ calls[i].result.source = calls[j].result.source
        /\ now > 0
        /\ SelectSeq(store, LAMBDA e :
                e.key = RequestKey(calls[j].result.source, calls[j]))
              = <<NewEntry(calls[j].result.source, calls[j].category,
                           cacheKeyObj(calls[j].action, calls[j].args),
                           calls[j].result.data, now)>>

\* Call j resolves from the execute of its current candidate and caches the
\* result: the entry it writes.
WrittenBy(j) ==
    NewEntry(calls[j].candidates[calls[j].idx].name, calls[j].category,
             cacheKeyObj(calls[j].action, calls[j].args),
             calls'[j].result.data, now)

SucceedsAndCaches(j) ==
    /\ calls[j].pc = "awaiting" /\ calls'[j].pc = "resolved"
    /\ ~calls[j].noCache
    /\ calls[j].candidates[calls[j].idx] \in Range(providers)
    /\ calls[j].category \in calls[j].candidates[calls[j].idx].capabilities

\* Every entry that a step creates or changes is the one written by a call
\* whose execute on a registered, capable candidate has just succeeded.
EntriesFromSuccess ==
    \A e \in Range(store') \ Range(store) :
        \E j \in 1..MaxCalls : SucceedsAndCaches(j) /\ e = WrittenBy(j)

\* The candidates of a starting call pass the three filters at that moment.
CandidatesEnabled ==
    \A j \in 1..MaxCalls :
        RouteStep(j) =>
            Range(calls'[j].candidates)
                \subseteq Range(FilterProviders(providers, calls'[j].category,
                                                apiKeys, disabledSources))

\* A call that rejects adds no entry and changes none.
RejectionKeepsEntries ==
    \A j \in 1..MaxCalls :
        (calls[j].pc # "rejected" /\ calls'[j].pc = "rejected")
            => Range(store') \subseteq Range(store)

\* A result served from the cache names a registered provider that has the
\* category.
CachedNamesCapable ==
    \A j \in 1..MaxCalls :
        calls'[j].result.cached =>
            \E p \in Range(providers') :
                /\ p.name = calls'[j].result.source
                /\ calls'[j].category \in p.capabilities

CapableOf(c) == {p \in Range(providers) : c.category \in p.capabilities}

\* execute was invoked at most once per candidate, and the candidates are
\* registered providers that have the category.
ExecutesBounded(i) ==
    /\ Len(calls[i].execLog) <= Len(calls[i].candidates)
    /\ \A k, m \in 1..Len(calls[i].execLog) :
          calls[i].execLog[k] = calls[i].execLog[m] => k = m
    /\ Len(calls[i].candidates) <= Cardinality(CapableOf(calls[i]))

\* C30 -- Termination of route(): provided every invoked execute eventually
\* settles, every route() call eventually resolves or rejects, and it invokes
\* execute at most once per candidate, at most as many times as there are
\* registered providers capable of the category.
C30_Termination ==
    /\ \A i \in 1..MaxFairCalls : (calls[i].pc = "awaiting") ~> Settled(calls[i])
    /\ [](\A i \in 1..MaxFairCalls : ExecutesBounded(i))

\* A call settled after it had invoked execute on each of two candidates,
\* all the registered providers that have its category.
C30_Witness ==
    \E i \in 1..MaxFairCalls :
        /\ Settled(calls[i])
        /\ Len(calls[i].execLog) = 2
        /\ Cardinality(CapableOf(calls[i])) = 2

====
